---- MODULE Spec2Model ----
(***************************************************************************)
(* A model of memsearch's incremental synchronisation engine               *)
(* (src/memsearch/core.py), of the vector store wrapper it drives          *)
(* (src/memsearch/store.py) and of the debounced file watcher              *)
(* (src/memsearch/watcher.py).                                             *)
(*                                                                         *)
(* Spec       the sync engine: MemSearch.index / index_file / _index_file  *)
(*            / _embed_and_store run one at a time against a file system   *)
(*            that changes between the calls.                              *)
(* WatchSpec  the watcher: _MarkdownHandler._schedule / _fire / cancel_all *)
(*            and the threading.Timer threads they start, interleaved.     *)
(***************************************************************************)
EXTENDS Integers, Sequences, FiniteSets, TLC

VARIABLES
    disk,       \* the file system: source path -> file state
    roots,      \* MemSearch._paths, as the set of sources lying under them
    model,      \* MemSearch._embedder.model_name
    store,      \* the Milvus collection: a set of records keyed by chunk_hash
    op,         \* the running (or last finished) _index_file call: locals and call log
    pass,       \* the running (or last finished) index() call: locals and call log
    last,       \* what the store operation that finished before `op` began was
    writes,     \* number of file system changes so far (bounded by MaxWrites)
    calls,      \* number of index() and index_file() calls so far (bounded by MaxCalls)
    timers,     \* _MarkdownHandler._timers: path -> timer id (0: no entry)
    pending,    \* _MarkdownHandler._pending: path -> event kind ("": no entry)
    tm,         \* the threading.Timer objects created so far: id -> thread state
    wpc,        \* FileWatcher: "running", "cancelled" (stop() past cancel_all), "stopped"
    cbLog,      \* the invocations of the registered callback, in order
    be,         \* the running (or finished) batched_embed / _embed_and_store call
    db,         \* the Milvus database file, the open MilvusStore and its last call
    cb,         \* the running (or last) call of the callback installed by watch()
    cf,         \* the configuration files and the last call of the config API
    pv,         \* the last construction of an embedding provider / of a MemSearch
    hd,         \* _MarkdownHandler in detail: the lock, the threads using it, the events seen
    ix          \* re-index operations running in separate threads: thread -> locals

syncVars  == <<disk, roots, model, store, op, pass, last, writes, calls>>
watchVars == <<timers, pending, tm, wpc, cbLog>>
batchVars == <<be>>
storeVars == <<db>>
callbackVars == <<cb>>
configVars   == <<cf>>
providerVars == <<pv>>
extraVars    == <<hd, ix>>
moreVars     == <<cb, cf, pv, hd, ix>>
vars      == <<disk, roots, model, store, op, pass, last, writes, calls,
               timers, pending, tm, wpc, cbLog, be, db, cb, cf, pv, hd, ix>>

-----------------------------------------------------------------------------
(* Bounds of the model *)

\* most heading sections a file has
MaxSections == 2
\* most changes the environment makes to the file system
MaxWrites == 1
\* most calls of index() and index_file()
MaxCalls == 2
\* _embed_and_store's batch_size (96 in the source), scaled to the file sizes above
batch_size == 1
\* most filesystem events the observer delivers
MaxEvents == 3

-----------------------------------------------------------------------------
(* The file system and the chunker *)

Sources     == {"a.md", "b.md"}
SourceOrder == <<"a.md", "b.md">>
Models      == {"m1", "m2"}

\* The text of one heading section.  "p" and "q" are one line long, "rr" two.
Texts == {"p", "q", "rr"}

NumLines(t) == IF t = "rr" THEN 2 ELSE 1

\* A markdown document is its sequence of heading sections.
Contents == UNION {[1..n -> Texts] : n \in 0..MaxSections}

FileStates ==
    {[kind |-> "absent", text |-> <<>>], [kind |-> "unreadable", text |-> <<>>]}
        \cup {[kind |-> "file", text |-> c] : c \in Contents}

\* "a.md" ranges over every file state; "b.md" is a one-section note that is
\* there, unreadable or gone.
FileStatesOf(s) ==
    IF s = "a.md" THEN FileStates
    ELSE {f \in FileStates : f.text \in {<<>>, <<"p">>}}

RECURSIVE LinesBefore(_, _)
LinesBefore(text, k) ==
    IF k <= 1 THEN 0 ELSE LinesBefore(text, k - 1) + NumLines(text[k - 1])

\* Chunk.content_hash: a collision-resistant fingerprint of the chunk's content.
content_hash(content) == <<"sha", content>>

\* chunker.chunk_markdown: one chunk per heading section, with its true line span.
chunk_markdown(text, source) ==
    [k \in 1..Len(text) |->
        [source       |-> source,
         content      |-> text[k],
         start_line   |-> LinesBefore(text, k) + 1,
         end_line     |-> LinesBefore(text, k) + NumLines(text[k]),
         content_hash |-> content_hash(text[k])]]

\* chunker.compute_chunk_id: a collision-resistant hash over the five fields.
compute_chunk_id(source, start_line, end_line, hash, model_name) ==
    <<source, start_line, end_line, hash, model_name>>

\* scanner.scan_paths: the existing files under the configured roots, in path order.
scan_paths(paths, fs) ==
    SelectSeq(SourceOrder, LAMBDA s : s \in paths /\ fs[s].kind # "absent")

\* The embedding backend: one vector per text, a function of the text and the model.
Vector(text, model_name) == <<"vec", model_name, text>>

Range(seq) == {seq[i] : i \in 1..Len(seq)}

-----------------------------------------------------------------------------
(* The vector store (MilvusStore): a set of records, chunk_hash the primary key *)

\* The double quote character.
Quote == "\""

\* A source path containing a double quote, and one that, put between double
\* quotes, reads as a boolean expression.
QuotedName   == "a\"b.md"
InjectedName == "x\" or source != \"x"

\* The characters of a source path, cut where a filter expression would be cut
\* into tokens.
Spelling(source) ==
    CASE source = QuotedName   -> <<"a", Quote, "b.md">>
      [] source = InjectedName -> <<"x", Quote, "or", "source", "!=", Quote, "x">>
      [] OTHER                 -> <<source>>

\* store.py 130 and 148: f'source == "{source}"'
SourceFilter(source) == <<"source", "==", Quote>> \o Spelling(source) \o <<Quote>>

\* Position of the first double quote of toks at or after k (0: none).
RECURSIVE ClosingQuote(_, _)
ClosingQuote(toks, k) ==
    IF k > Len(toks) THEN 0
    ELSE IF toks[k] = Quote THEN k
    ELSE ClosingQuote(toks, k + 1)

\* Milvus evaluating a filter expression on the record r: comparisons of the
\* source field with a string literal, joined by "or".  "error": the text is
\* not an expression and the request is rejected.
RECURSIVE EvalFilter(_, _)
EvalFilter(toks, r) ==
    IF Len(toks) < 4 THEN "error"
    ELSE IF toks[1] # "source" \/ toks[2] \notin {"==", "!="} \/ toks[3] # Quote
    THEN "error"
    ELSE LET k == ClosingQuote(toks, 4)
         IN  IF k = 0 THEN "error"
             ELSE LET lit  == SubSeq(toks, 4, k - 1)
                      v    == (Spelling(r.source) = lit) = (toks[2] = "==")
                      rest == SubSeq(toks, k + 1, Len(toks))
                  IN  IF rest = <<>> THEN (IF v THEN "true" ELSE "false")
                      ELSE IF rest[1] # "or" THEN "error"
                      ELSE LET w == EvalFilter(Tail(rest), r)
                           IN  IF w = "error" THEN "error"
                               ELSE IF v \/ w = "true" THEN "true" ELSE "false"

\* Milvus accepts the filter expression.
FilterValid(toks) == EvalFilter(toks, [source |-> ""]) # "error"

\* The records a filter expression selects (none when it is rejected).
Query(st, toks) == {r \in st : EvalFilter(toks, r) = "true"}

hashes_by_source(st, source) == {r.chunk_hash : r \in Query(st, SourceFilter(source))}

indexed_sources(st) == {r.source : r \in st}

delete_by_source(st, source) == st \ Query(st, SourceFilter(source))

\* Mutant: the store ignores the request.
delete_by_hashes_None(st, hashes) == st

delete_by_hashes(st, hashes) == {r \in st : r.chunk_hash \notin hashes}

upsert(st, chunks) ==
    {r \in st : \A i \in 1..Len(chunks) : chunks[i].chunk_hash # r.chunk_hash}
        \cup Range(chunks)

count(st) == Cardinality(st)

RecordsOf(st, source) == {r \in st : r.source = source}

-----------------------------------------------------------------------------
(* MemSearch._index_file and _embed_and_store, line by line *)

\* Mutant: the identifier leaves the content fingerprint out.
ChunkId_NoHash(c, model_name) ==
    compute_chunk_id(c.source, c.start_line, c.end_line, <<"sha", "">>, model_name)

\* Mutant: the identifier leaves the model name out.
ChunkId_NoModel(c, model_name) ==
    compute_chunk_id(c.source, c.start_line, c.end_line, c.content_hash, "")

\* core.py 114-117 and 132: the composite identifier of a chunk under a model
ChunkId(c, model_name) ==
    compute_chunk_id(c.source, c.start_line, c.end_line, c.content_hash, model_name)

ChunkIds(chunks, model_name) == {ChunkId(chunks[k], model_name) : k \in 1..Len(chunks)}

\* Mutant: nothing is stale.
StaleIds_None(old_ids, chunk_ids) == {}

\* Mutant: everything stored for the source is stale.
StaleIds_All(old_ids, chunk_ids) == old_ids

\* core.py 121
StaleIds(old_ids, chunk_ids) == old_ids \ chunk_ids

\* Mutant: the filter on old_ids is lost, every chunk is embedded again.
ChunksToEmbed_All(chunks, old_ids, model_name, force) == chunks

\* Mutant: the first chunk is never embedded.
ChunksToEmbed_DropFirst(chunks, old_ids, model_name, force) ==
    IF chunks = <<>> THEN chunks ELSE Tail(chunks)

\* Mutant: force is ignored.
ChunksToEmbed_NoForce(chunks, old_ids, model_name, force) ==
    SelectSeq(chunks, LAMBDA c : ChunkId(c, model_name) \notin old_ids)

\* core.py 128-134: the chunks left to embed
ChunksToEmbed(chunks, old_ids, model_name, force) ==
    IF force THEN chunks
    ELSE SelectSeq(chunks, LAMBDA c : ChunkId(c, model_name) \notin old_ids)

\* core.py 152: contents[i : i + batch_size]
Batch(contents, i) ==
    SubSeq(contents, i + 1, IF i + batch_size < Len(contents)
                            THEN i + batch_size ELSE Len(contents))

\* Mutant: every record is given the first vector.
BuildRecords_FirstVector(chunks, embeddings, model_name) ==
    [i \in 1..Len(chunks) |->
        [chunk_hash |-> ChunkId(chunks[i], model_name),
         embedding  |-> embeddings[1],
         content    |-> chunks[i].content,
         source     |-> chunks[i].source,
         start_line |-> chunks[i].start_line,
         end_line   |-> chunks[i].end_line]]

\* core.py 156-173: one record per chunk, the i-th embedding with the i-th chunk
BuildRecords(chunks, embeddings, model_name) ==
    [i \in 1..Len(chunks) |->
        [chunk_hash |-> ChunkId(chunks[i], model_name),
         embedding  |-> embeddings[i],
         content    |-> chunks[i].content,
         source     |-> chunks[i].source,
         start_line |-> chunks[i].start_line,
         end_line   |-> chunks[i].end_line]]

NoSummary ==
    [kind |-> "none", source |-> "", text |-> <<>>, model |-> "", force |-> FALSE,
     ok |-> FALSE]

IdleOp ==
    [pc |-> "idle", caller |-> "", source |-> "", force |-> FALSE, model |-> "",
     text |-> <<>>, all_chunks |-> <<>>, chunks |-> <<>>, chunk_ids |-> {},
     old_ids |-> {}, before |-> {}, i |-> 0, embeddings |-> <<>>,
     deletes |-> <<>>, embeds |-> <<>>, upserts |-> <<>>, log |-> <<>>,
     ret |-> 0, outcome |-> "", failed_at |-> "", prev |-> NoSummary,
     count0 |-> 0]

IdlePass ==
    [pc |-> "idle", force |-> FALSE, model |-> "", files |-> <<>>, k |-> 0, total |-> 0,
     active_sources |-> {}, store0 |-> {}, seen |-> <<>>, removed |-> {},
     on_disk |-> {}, ret |-> 0, outcome |-> ""]

Summary(o) ==
    [kind |-> "file", source |-> o.source, text |-> o.text, model |-> o.model,
     force |-> o.force, ok |-> (o.outcome = "ok")]

OpFree   == op.pc \in {"idle", "done"}
PassFree == pass.pc \in {"idle", "done"}

\* The call returns n.
Returned(o, n) == [o EXCEPT !.pc = "done", !.outcome = "ok", !.ret = n]

\* The call raises out of the step `where`.
Raised(o, where) == [o EXCEPT !.pc = "done", !.outcome = "error", !.failed_at = where]

\* core.py 104-118: read the file, chunk it, identify the chunks, query the store.
\* read_text raises when the file is missing or cannot be read or decoded.
BeginIndexFile(source, force, caller) ==
    LET f      == disk[source]
        base   == [IdleOp EXCEPT !.caller = caller, !.source = source,
                                 !.force = force, !.model = model, !.prev = last,
                                 !.before = RecordsOf(store, source),
                                 !.count0 = count(store)]
        chunks == chunk_markdown(f.text, source)
    IN  IF f.kind # "file"
        THEN /\ op' = Raised(base, "read")
             /\ last' = Summary(op')
        ELSE /\ op' = [base EXCEPT !.pc = "delete", !.outcome = "running",
                                   !.text = f.text, !.all_chunks = chunks,
                                   !.chunks = chunks,
                                   !.chunk_ids = ChunkIds(chunks, model),
                                   !.old_ids = hashes_by_source(store, source)]
             /\ last' = last

\* core.py 97-101: MemSearch.index_file(path)
IndexFile(path) ==
    /\ OpFree /\ PassFree
    /\ calls < MaxCalls
    /\ calls' = calls + 1
    /\ BeginIndexFile(path, FALSE, "index_file")
    /\ pass' = IdlePass
    /\ UNCHANGED <<disk, roots, model, store, writes, watchVars, batchVars, storeVars, moreVars>>

\* core.py 120-136: delete the stale identifiers, then the two early returns
DeleteStale ==
    /\ op.pc = "delete"
    /\ LET stale == StaleIds(op.old_ids, op.chunk_ids)
           o1    == IF stale # {}
                    THEN [op EXCEPT !.deletes = Append(@, stale),
                                    !.log = Append(@, "delete")]
                    ELSE op
           todo  == ChunksToEmbed(op.chunks, op.old_ids, op.model, op.force)
       IN  /\ store' = IF stale # {} THEN delete_by_hashes(store, stale) ELSE store
           /\ IF op.chunks = <<>> \/ todo = <<>>
              THEN /\ op' = Returned(o1, 0)
                   /\ last' = Summary(op')
              ELSE /\ op' = [o1 EXCEPT !.pc = "embed", !.chunks = todo]
                   /\ last' = last
    /\ UNCHANGED <<disk, roots, model, pass, writes, calls, watchVars, batchVars, storeVars, moreVars>>

\* Mutant: the failed batch is requested again.
EmbedFailed_Retry(o) == o

\* core.py 153: the awaited embed call raises; nothing catches it, so it leaves
\* _embed_and_store, _index_file and their caller
EmbedFailed(o) == Raised(o, "embed")

\* core.py 151-154: one pass of the batch loop; the backend call may fail
EmbedBatch ==
    /\ op.pc = "embed"
    /\ LET contents == [k \in 1..Len(op.chunks) |-> op.chunks[k].content]
           batch    == Batch(contents, op.i)
       IN  \E ok \in BOOLEAN :
             LET o1 == [op EXCEPT !.embeds = Append(@, [texts |-> batch, ok |-> ok]),
                                  !.log = Append(@, "embed")]
             IN  IF ok
                 THEN /\ op' = [o1 EXCEPT
                                  !.embeddings =
                                      @ \o [k \in 1..Len(batch) |-> Vector(batch[k], op.model)],
                                  !.i = @ + batch_size,
                                  !.pc = IF op.i + batch_size >= Len(contents)
                                         THEN "upsert" ELSE "embed"]
                      /\ last' = last
                 ELSE /\ op' = EmbedFailed(o1)
                      /\ last' = IF op'.pc = "done" THEN Summary(op') ELSE last
    /\ UNCHANGED <<disk, roots, model, store, pass, writes, calls, watchVars, batchVars, storeVars, moreVars>>

\* core.py 156-175: build the records and upsert them in one store call, which
\* the store either applies or rejects as a whole
UpsertRecords ==
    /\ op.pc = "upsert"
    /\ LET records == BuildRecords(op.chunks, op.embeddings, op.model)
       IN  \E ok \in BOOLEAN :
             LET o1 == [op EXCEPT !.upserts = Append(@, [records |-> records, ok |-> ok]),
                                  !.log = Append(@, "upsert")]
             IN  /\ store' = IF ok THEN upsert(store, records) ELSE store
                 /\ op' = IF ok THEN Returned(o1, Len(records))
                                ELSE Raised(o1, "upsert")
                 /\ last' = Summary(op')
    /\ UNCHANGED <<disk, roots, model, pass, writes, calls, watchVars, batchVars, storeVars, moreVars>>

-----------------------------------------------------------------------------
(* MemSearch.index: the full pass *)

\* core.py 73-81
Index(force) ==
    /\ OpFree /\ PassFree
    /\ pass' = [IdlePass EXCEPT !.pc = "loop", !.force = force, !.model = model,
                                !.files = scan_paths(roots, disk), !.k = 1,
                                !.store0 = store]
    /\ op' = IdleOp
    /\ calls < MaxCalls
    /\ calls' = calls + 1
    /\ UNCHANGED <<disk, roots, model, store, last, writes, watchVars, batchVars, storeVars, moreVars>>

\* core.py 82-84: the next scanned file enters _index_file
IndexLoopFile ==
    /\ pass.pc = "loop" /\ pass.k <= Len(pass.files)
    /\ pass' = [pass EXCEPT !.pc = "file",
                            !.active_sources = @ \cup {pass.files[pass.k]},
                            !.seen = Append(@, disk[pass.files[pass.k]])]
    /\ BeginIndexFile(pass.files[pass.k], pass.force, "index")
    /\ UNCHANGED <<disk, roots, model, store, writes, calls, watchVars, batchVars, storeVars, moreVars>>

\* core.py 84-85: _index_file returned, or raised: index() has no handler, so
\* the exception leaves index()
IndexLoopReturn ==
    /\ pass.pc = "file" /\ op.pc = "done"
    /\ pass' = IF op.outcome = "ok"
               THEN [pass EXCEPT !.pc = "loop", !.total = @ + op.ret, !.k = @ + 1]
               ELSE [pass EXCEPT !.pc = "done", !.outcome = "error"]
    /\ UNCHANGED <<disk, roots, model, store, op, last, writes, calls, watchVars, batchVars, storeVars, moreVars>>

RECURSIVE DeleteSources(_, _)
DeleteSources(st, sources) ==
    IF sources = {} THEN st
    ELSE LET s == CHOOSE x \in sources : TRUE
         IN  DeleteSources(delete_by_source(st, s), sources \ {s})

\* Mutant: the cleanup finds nothing to remove.
StaleSources_None(indexed, active_sources) == {}

\* core.py 88-90: the sources the cleanup removes
StaleSources(indexed, active_sources) == {s \in indexed : s \notin active_sources}

\* core.py 87-95: the deleted-file cleanup and the return
IndexCleanup ==
    /\ pass.pc = "loop" /\ pass.k > Len(pass.files)
    /\ LET gone == StaleSources(indexed_sources(store), pass.active_sources)
       IN  /\ store' = DeleteSources(store, gone)
           /\ pass' = [pass EXCEPT !.pc = "done", !.outcome = "ok",
                                   !.ret = pass.total, !.removed = gone,
                                   !.on_disk = {s \in Sources : disk[s].kind # "absent"}]
           /\ last' = IF gone = {} THEN last ELSE [NoSummary EXCEPT !.kind = "cleanup"]
    /\ UNCHANGED <<disk, roots, model, op, writes, calls, watchVars, batchVars, storeVars, moreVars>>

-----------------------------------------------------------------------------
(* The environment of the sync engine *)

\* A file is created, edited, made unreadable or removed between two calls.
\* (Init covers every file system the first call can find.)
WriteFile(s, f) ==
    /\ OpFree /\ PassFree
    /\ writes < MaxWrites
    /\ 0 < calls /\ calls < MaxCalls
    /\ f # disk[s]
    /\ disk' = [disk EXCEPT ![s] = f]
    /\ writes' = writes + 1
    /\ UNCHANGED <<roots, model, store, op, pass, last, calls, watchVars, batchVars, storeVars, moreVars>>

RootChoices == {{"a.md", "b.md"}, {"a.md"}}

\* core.py 46-67: another MemSearch is constructed over the same collection
Reopen(paths, model_name) ==
    /\ OpFree /\ PassFree
    /\ 0 < calls /\ calls < MaxCalls
    /\ <<paths, model_name>> # <<roots, model>>
    /\ roots' = paths
    /\ model' = model_name
    /\ UNCHANGED <<disk, store, op, pass, last, writes, calls, watchVars, batchVars, storeVars, moreVars>>

\* No batched_embed / _embed_and_store call has been made.
IdleBatch ==
    [pc |-> "idle", api |-> "", texts |-> <<>>, limit |-> 0, chunks |-> <<>>,
     size |-> 0, i |-> 0, j |-> 0, results |-> <<>>, embeddings |-> <<>>,
     call_log |-> <<>>, embed_log |-> <<>>, records |-> <<>>,
     outcome |-> "", result |-> <<>>, n |-> 0]

\* No database file yet, no MilvusStore open, no call made.
NoDb ==
    [dim |-> 0, dimension |-> 0, call |-> "", outcome |-> "", source |-> "",
     before |-> {}, top_k |-> 0, hits |-> {}, chunk_ids |-> {}]

\* The callback installed by watch() has not been called.
IdleCallback ==
    [pc |-> "idle", event_type |-> "", path |-> "", on_event |-> FALSE,
     summary |-> "", outcome |-> "", op0 |-> IdleOp, before |-> {},
     hooks |-> <<>>]

\* A configuration file that does not exist.
NoFile == [exists |-> FALSE, lines |-> <<>>]

\* A Python value: None, a str, an int, or a reference to a dict.
PyNone    == [t |-> "none", s |-> "", n |-> 0]
PyStr(s)  == [t |-> "str", s |-> s, n |-> 0]
PyInt(n)  == [t |-> "int", s |-> "", n |-> n]
PyDict(n) == [t |-> "dict", s |-> "", n |-> n]

\* No set_config_value call has been made.
NoSet ==
    [done |-> FALSE, key |-> "", value |-> PyNone, project |-> FALSE, outcome |-> "",
     before |-> NoFile]

\* No configuration file, no call of the config API.
NoConfig ==
    [global |-> NoFile, project |-> NoFile, sets |-> 0, call |-> "", set |-> NoSet,
     key |-> "", outcome |-> "", result |-> PyNone, cli |-> <<>>, config |-> <<>>,
     intact |-> TRUE]

\* No provider has been constructed.
NoProvider ==
    [pc |-> "idle", call |-> "", name |-> "", given |-> FALSE, batch_size |-> 0,
     log |-> <<>>, outcome |-> "", message |-> <<>>, limit |-> 0]

\* The threads that enter the handler, and the value of a free lock.
Nobody         == [kind |-> "free", k |-> 0]
ObserverThread == [kind |-> "observer", k |-> 0]
StopThread     == [kind |-> "stop", k |-> 0]
TimerThread(k) == [kind |-> "timer", k |-> k]

\* A Python dict with no key.
EmptyDict == [p \in {} |-> 0]

\* The handler's lock is free, its dicts are empty, no thread is inside it.
IdleHandler ==
    [lock |-> Nobody, timers |-> EmptyDict, pending |-> EmptyDict,
     observer |-> [pc |-> "idle", event_type |-> "", src_path |-> "",
                   is_directory |-> FALSE, scheduled |-> FALSE, seen |-> 0],
     stop |-> "idle", threads |-> <<>>, writer |-> Nobody]

\* The threads that re-index: the caller of index(), and two timer threads
\* running the callback of watch().
Callbacks == {"t1", "t2"}
Threads   == {"index"} \cup Callbacks

\* A thread that has not entered _index_file.
IdleThread ==
    [pc |-> "idle", source |-> "", text |-> <<>>, chunks |-> <<>>,
     chunk_ids |-> {}, old_ids |-> {}, todo |-> <<>>, embeddings |-> <<>>,
     outcome |-> "", during_pass |-> FALSE]

\* index() has not been called.
IdleScan ==
    [pc |-> "idle", files |-> <<>>, k |-> 0, active_sources |-> {},
     indexed_sources |-> {}, removed |-> {}, finished |-> {}, live |-> {},
     outcome |-> ""]

\* No re-index runs in a thread of its own.
IdleThreads ==
    [th |-> [t \in Threads |-> IdleThread], pass |-> IdleScan]

OthersIdle ==
    /\ hd = IdleHandler
    /\ ix = IdleThreads
    /\ be = IdleBatch
    /\ db = NoDb
    /\ cb = IdleCallback
    /\ cf = NoConfig
    /\ pv = NoProvider

WatchIdle ==
    /\ timers = [p \in Sources |-> 0]
    /\ pending = [p \in Sources |-> ""]
    /\ tm = <<>>
    /\ wpc = "running"
    /\ cbLog = <<>>

Init ==
    /\ disk \in {d \in [Sources -> FileStates] : \A s \in Sources : d[s] \in FileStatesOf(s)}
    /\ roots = {"a.md", "b.md"}
    /\ model = "m1"
    /\ store = {}
    /\ op = IdleOp
    /\ pass = IdlePass
    /\ last = NoSummary
    /\ writes = 0
    /\ calls = 0
    /\ WatchIdle
    /\ OthersIdle

Next ==
    \/ \E s \in Sources : IndexFile(s)
    \/ DeleteStale
    \/ EmbedBatch
    \/ UpsertRecords
    \/ \E force \in BOOLEAN : Index(force)
    \/ IndexLoopFile
    \/ IndexLoopReturn
    \/ IndexCleanup
    \/ \E s \in Sources : \E f \in FileStatesOf(s) : WriteFile(s, f)
    \/ \E paths \in RootChoices, m \in Models : Reopen(paths, m)

Spec == Init /\ [][Next]_vars

-----------------------------------------------------------------------------
(* What a finished _index_file call did, read from its call log *)

RECURSIVE SentTexts(_)
\* the texts of all the embed calls made, in order
SentTexts(embeds) ==
    IF embeds = <<>> THEN <<>> ELSE embeds[1].texts \o SentTexts(Tail(embeds))

\* the identifiers passed to delete_by_hashes
Deleted(o) == UNION Range(o.deletes)

\* the identifiers of the chunks whose content was sent to the embedder
EmbeddedIds(o) ==
    [k \in 1..Len(SentTexts(o.embeds)) |-> ChunkId(o.chunks[k], o.model)]

\* the records of the upsert calls the store applied
UpsertedRecords(o) ==
    IF o.upserts # <<>> /\ o.upserts[1].ok THEN o.upserts[1].records ELSE <<>>

UpsertedIds(o) == {UpsertedRecords(o)[k].chunk_hash : k \in 1..Len(UpsertedRecords(o))}

OpOk == op.pc = "done" /\ op.outcome = "ok"

\* `op` read the same file right after a successful re-index of it, and no
\* other store operation came between the two
Reindexes == 
    /\ op.pc # "idle" /\ op.failed_at # "read"
    /\ op.prev.kind = "file" /\ op.prev.ok
    /\ op.prev.source = op.source

-----------------------------------------------------------------------------
(* C1 - C9: the sync engine *)

\* C1: a successful re-index (force off) followed at once by another of the
\* same file, with content and model name unchanged, makes the second call
\* embed nothing, delete nothing, upsert nothing and return 0.
C1_ReindexUnchangedIsNoOp ==
    (/\ Reindexes
     /\ ~op.force /\ ~op.prev.force
     /\ op.prev.text = op.text
     /\ op.prev.model = op.model)
    => /\ op.pc \in {"delete", "done"}
       /\ op.embeds = <<>> /\ op.deletes = <<>> /\ op.upserts = <<>>
       /\ op.pc = "done" => (op.outcome = "ok" /\ op.ret = 0)
       /\ RecordsOf(store, op.source) = op.before

C1_Witness ==
    /\ Reindexes /\ ~op.force /\ ~op.prev.force
    /\ op.prev.text = op.text /\ op.prev.model = op.model
    /\ Len(op.text) = MaxSections
    /\ OpOk

\* C2: when a re-index returns, the identifiers stored for the source are
\* exactly those of the file's current chunks; exactly the stale identifiers
\* were deleted; every new identifier was embedded once and upserted once, with
\* the vector of its own content; and with force off an identifier that was
\* both stored and current was neither deleted nor embedded again.
C2_ReconciledAfterReindex ==
    OpOk =>
      LET sent == SentTexts(op.embeds)
          ids  == EmbeddedIds(op)
          ups  == UpsertedRecords(op)
      IN  /\ hashes_by_source(store, op.source) = op.chunk_ids
          /\ Deleted(op) = op.old_ids \ op.chunk_ids
          /\ Len(op.deletes) <= 1 /\ Len(op.upserts) <= 1
          /\ Len(ups) = Len(sent)
          /\ \A k \in 1..Len(sent) :
                /\ sent[k] = op.chunks[k].content
                /\ ups[k].chunk_hash = ids[k]
                /\ ups[k].embedding = Vector(sent[k], op.model)
                /\ ups[k] \in store
          /\ \A id \in op.chunk_ids \ op.old_ids :
                Cardinality({k \in 1..Len(sent) : ids[k] = id}) = 1
          /\ ~op.force =>
                \A id \in op.chunk_ids \cap op.old_ids :
                    /\ id \notin Deleted(op)
                    /\ \A k \in 1..Len(sent) : ids[k] # id
          /\ op.force => Len(sent) = Len(op.all_chunks)

C2_Witness ==
    /\ OpOk /\ ~op.force
    /\ op.old_ids \ op.chunk_ids # {}
    /\ op.chunk_ids \ op.old_ids # {}
    /\ op.chunk_ids \cap op.old_ids # {}

\* The edit between the two reads of the file is confined to section k.
OneSectionEdited(old, new, k) ==
    /\ Len(old) = Len(new)
    /\ k \in 1..Len(old)
    /\ old[k] # new[k]
    /\ \A j \in 1..Len(old) : j # k => old[j] = new[j]

\* Re-indexing after an edit of section k deleted exactly the old chunk k,
\* upserted exactly the new chunk k, and left the other sections' records alone.
OnlySectionReindexed(k) ==
    LET old == chunk_markdown(op.prev.text, op.source)
        new == op.all_chunks
    IN  /\ Deleted(op) = {ChunkId(old[k], op.model)}
        /\ UpsertedIds(op) = {ChunkId(new[k], op.model)}
        /\ SentTexts(op.embeds) = <<new[k].content>>
        /\ \A j \in 1..Len(old) : j # k =>
              /\ ChunkId(old[j], op.model) = ChunkId(new[j], op.model)
              /\ \E r \in op.before :
                    r.chunk_hash = ChunkId(old[j], op.model) /\ r \in store

EditedAndReindexed(k) ==
    /\ Reindexes /\ OpOk /\ ~op.force
    /\ op.prev.model = op.model
    /\ OneSectionEdited(op.prev.text, op.text, k)

\* C3 as stated: whatever the edit does to the section's length, only the
\* edited section's identifiers are deleted and added.
C3_AnyEditTouchesOnlyItsSection ==
    \A k \in 1..MaxSections : EditedAndReindexed(k) => OnlySectionReindexed(k)

\* C3, amended: when the edit leaves the line ranges of the other sections
\* unchanged (the section keeps its number of lines, or no section follows
\* it), re-indexing deletes exactly the identifiers of the chunks whose content
\* changed and upserts exactly the new ones; the untouched sections'
\* identifiers stay in the store and their chunks are not embedded again.
C3_EditTouchesOnlyItsSection ==
    \A k \in 1..MaxSections :
        (/\ EditedAndReindexed(k)
         /\ \/ NumLines(op.prev.text[k]) = NumLines(op.text[k])
            \/ k = Len(op.text))
        => OnlySectionReindexed(k)

C3_Witness ==
    /\ EditedAndReindexed(1)
    /\ Len(op.text) > 1
    /\ NumLines(op.prev.text[1]) = NumLines(op.text[1])

\* C4: re-indexing an unchanged, indexed file under another model name deletes
\* every identifier stored for the source, embeds and upserts every current
\* chunk and returns the chunk count; no identifier of the old model remains.
C4_ModelChangeReembedsAll ==
    (/\ Reindexes /\ OpOk
     /\ op.prev.text = op.text
     /\ op.prev.model # op.model)
    => /\ op.old_ids = ChunkIds(op.all_chunks, op.prev.model)
       /\ Deleted(op) = op.old_ids
       /\ SentTexts(op.embeds) = [k \in 1..Len(op.all_chunks) |-> op.all_chunks[k].content]
       /\ UpsertedIds(op) = op.chunk_ids
       /\ op.ret = Len(op.all_chunks)
       /\ hashes_by_source(store, op.source) \cap op.old_ids = {}
       /\ \A h \in hashes_by_source(store, op.source) : h[5] = op.model

C4_Witness ==
    /\ Reindexes /\ OpOk
    /\ op.prev.text = op.text /\ op.prev.model # op.model
    /\ Len(op.all_chunks) = MaxSections

PassOk == pass.pc = "done" /\ pass.outcome = "ok"

\* Since it was indexed, only file d was removed: every other indexed source
\* was scanned, and what the store held for a scanned file is what the file holds.
OnlyRemoved(d) ==
    /\ d \in indexed_sources(pass.store0)
    /\ d \notin Range(pass.files)
    /\ \A s \in indexed_sources(pass.store0) \ {d} : s \in Range(pass.files)
    /\ \A i \in 1..Len(pass.files) :
          hashes_by_source(pass.store0, pass.files[i])
              = ChunkIds(chunk_markdown(pass.seen[i].text, pass.files[i]), pass.model)

\* C5: after a full pass no record is left whose source the scan did not
\* return; when one indexed file was removed and nothing else changed, the
\* record count drops by that file's records and the other records are untouched.
C5_DeletedFileCleanup ==
    PassOk =>
      /\ indexed_sources(store) \subseteq Range(pass.files)
      /\ \A d \in Sources :
            OnlyRemoved(d) =>
              /\ count(store) = count(pass.store0) - count(RecordsOf(pass.store0, d))
              /\ \A s \in Sources \ {d} : RecordsOf(store, s) = RecordsOf(pass.store0, s)

C5_Witness ==
    /\ PassOk
    /\ \E d \in Sources :
          /\ OnlyRemoved(d)
          /\ indexed_sources(pass.store0) # {d}
          /\ count(store) < count(pass.store0)

\* C6: a full pass deletes a source's records (in its cleanup) only if the
\* source's file does not exist at the time of the pass.
C6_CleanupRemovesOnlyMissingFiles ==
    PassOk => \A s \in pass.removed : s \notin pass.on_disk

\* C7: a file that cannot be read, or whose re-index fails, does not end the
\* pass: every scanned file is tried, the cleanup runs and the count is
\* returned; index_file(), by contrast, raises the file's error.
C7_PassSurvivesFileErrors ==
    /\ pass.pc = "done" =>
          (pass.outcome = "ok" /\ pass.active_sources = Range(pass.files))
    /\ (op.pc = "done" /\ op.caller = "index_file" /\ op.failed_at # "")
          => op.outcome = "error"

EmbedOrUpsertFailed == op.pc = "done" /\ op.failed_at \in {"embed", "upsert"}

\* The failure reaches the caller of _index_file, and through index() its caller.
Surfaced ==
    /\ op.outcome = "error"
    /\ (op.caller = "index" /\ pass.pc = "done") => pass.outcome = "error"

\* C8 as stated: after a failed embedding or upsert the store holds for the
\* source what it held before the call.
C8_FailureLeavesSourceAsBefore ==
    EmbedOrUpsertFailed =>
        (Surfaced /\ RecordsOf(store, op.source) = op.before)

\* C8, amended: after a failed embedding (or rejected upsert) the failure is
\* surfaced and no record was added or replaced: the store holds for the source
\* what it held before the call less the stale identifiers (stored - current),
\* which were deleted before the embedding step.
C8_FailureCommitsOnlyStaleDeletion ==
    EmbedOrUpsertFailed =>
        /\ Surfaced
        /\ RecordsOf(store, op.source)
              = {r \in op.before : r.chunk_hash \in op.chunk_ids}
        /\ UpsertedRecords(op) = <<>>

C8_Witness ==
    /\ EmbedOrUpsertFailed
    /\ op.failed_at = "embed"
    /\ op.old_ids \ op.chunk_ids # {}
    /\ op.old_ids \cap op.chunk_ids # {}

\* the positions (in op.chunks) of the chunks of the j-th embed call
BatchPositions(j) ==
    {k \in 1..Len(op.chunks) : (j - 1) * batch_size < k /\ k <= j * batch_size}

\* C9: a failed embedding call ends _embed_and_store: it is not requested
\* again, no later batch is requested, upsert is not called; and of every
\* batch either all the chunks are upserted or none.
C9_EmbedFailureAbortsWithoutUpsert ==
    /\ \A j \in 1..Len(op.embeds) :
          ~op.embeds[j].ok =>
              /\ j = Len(op.embeds)
              /\ op.pc = "done" /\ op.outcome = "error"
              /\ op.upserts = <<>>
              /\ RecordsOf(store, op.source) \subseteq op.before
    /\ \A j \in 1..Len(op.embeds) :
          \/ \A k \in BatchPositions(j) :
                ChunkId(op.chunks[k], op.model) \in UpsertedIds(op)
          \/ \A k \in BatchPositions(j) :
                ChunkId(op.chunks[k], op.model) \notin UpsertedIds(op)

C9_Witness ==
    /\ Len(op.embeds) > 1
    /\ ~op.embeds[Len(op.embeds)].ok
    /\ op.pc = "done"

-----------------------------------------------------------------------------
(* The debounced watcher: _MarkdownHandler and the Timer threads it starts.   *)
(* Each `with self._lock` block is one step.  A timer thread is "waiting"     *)
(* until its interval passes or it is cancelled; once its wait has timed out  *)
(* ("elapsed") cancel() no longer stops it, and it goes on to call _fire.     *)

Kinds == {"created", "modified", "deleted"}

\* Mutant: the old timer is not cancelled.
Cancel_Forgotten(t) == t

\* threading.Timer.cancel(), as called at watcher.py 41 and 70
Cancel(t) == IF t.state = "waiting" THEN [t EXCEPT !.state = "cancelled"] ELSE t

\* Mutant: a kind already pending for the path is kept.
SetPending_KeepFirst(p, path, event_type) ==
    IF p[path] # "" THEN p ELSE [p EXCEPT ![path] = event_type]

\* Mutant: the kind is written for every path.
SetPending_All(p, path, event_type) == [q \in DOMAIN p |-> event_type]

\* watcher.py 39: self._pending[path] = event_type
SetPending(p, path, event_type) == [p EXCEPT ![path] = event_type]

\* watcher.py 37-44 (entered from on_created / on_modified / on_deleted, 54-64)
Schedule(event_type, path) ==
    /\ wpc # "stopped"
    /\ Len(tm) < MaxEvents
    /\ pending' = SetPending(pending, path, event_type)
    /\ LET old == timers[path]
           tm1 == IF old # 0 THEN [tm EXCEPT ![old] = Cancel(@)] ELSE tm
       IN  tm' = Append(tm1, [path |-> path, kind |-> event_type, state |-> "waiting",
                              event_type |-> "", armed |-> 0, newest |-> 0,
                              discarded |-> FALSE,
                              late |-> (old # 0 /\ tm[old].state # "waiting")])
    /\ timers' = [timers EXCEPT ![path] = Len(tm) + 1]
    /\ UNCHANGED <<wpc, cbLog, syncVars, batchVars, storeVars, moreVars>>

\* threading.Timer.run: the wait of debounce_s times out
Elapse(t) ==
    /\ tm[t].state = "waiting"
    /\ tm' = [tm EXCEPT ![t].state = "elapsed"]
    /\ UNCHANGED <<timers, pending, wpc, cbLog, syncVars, batchVars, storeVars, moreVars>>

\* The most recent event scheduled for the path so far (events are numbered in
\* the order _schedule took the lock, which is the order of their timers in tm).
NewestEvent(path) ==
    CHOOSE t \in 1..Len(tm) :
        /\ tm[t].path = path
        /\ \A u \in 1..Len(tm) : tm[u].path = path => u <= t

\* watcher.py 47-49: _fire takes the pending kind and the timer entry of its path
FirePop(t) ==
    /\ tm[t].state = "elapsed"
    /\ LET path == tm[t].path
       IN  /\ tm' = [tm EXCEPT ![t].state = "popped",
                               ![t].event_type = pending[path],
                               ![t].armed = timers[path],
                               ![t].newest = NewestEvent(path)]
           /\ pending' = [pending EXCEPT ![path] = ""]
           /\ timers' = [timers EXCEPT ![path] = 0]
    /\ UNCHANGED <<wpc, cbLog, syncVars, batchVars, storeVars, moreVars>>

\* Mutant: the callback is not invoked.
Invoke_Dropped(log, t) == log

\* watcher.py 52: self._callback(event_type, Path(path))
Invoke(log, t) ==
    Append(log, [event_type |-> tm[t].event_type, path |-> tm[t].path, timer |-> t,
                 armed |-> tm[t].armed])

\* watcher.py 50-52: outside the lock, the callback is invoked if a kind was taken
FireCall(t) ==
    /\ tm[t].state = "popped"
    /\ tm' = [tm EXCEPT ![t].state = "finished"]
    /\ cbLog' = IF tm[t].event_type # "" THEN Invoke(cbLog, t) ELSE cbLog
    /\ UNCHANGED <<timers, pending, wpc, syncVars, batchVars, storeVars, moreVars>>

\* Mutant: the pending kinds are left in place.
ClearPending_Kept(p) == p

\* watcher.py 72: self._pending.clear()
ClearPending(p) == [path \in DOMAIN p |-> ""]

\* watcher.py 66-72, called first by FileWatcher.stop (111); the event whose
\* kind is in _pending at that moment is marked as discarded
CancelAll ==
    /\ wpc = "running"
    /\ tm' = [t \in 1..Len(tm) |->
                LET t1 == IF \E path \in Sources : timers[path] = t
                          THEN Cancel(tm[t]) ELSE tm[t]
                IN  [t1 EXCEPT !.discarded =
                        pending[tm[t].path] # "" /\ t = NewestEvent(tm[t].path)]]
    /\ timers' = [path \in Sources |-> 0]
    /\ pending' = ClearPending(pending)
    /\ wpc' = "cancelled"
    /\ UNCHANGED <<cbLog, syncVars, batchVars, storeVars, moreVars>>

\* watcher.py 112-113: the observer thread is stopped and joined; stop() returns
ObserverStop ==
    /\ wpc = "cancelled"
    /\ wpc' = "stopped"
    /\ UNCHANGED <<timers, pending, tm, cbLog, syncVars, batchVars, storeVars, moreVars>>

WatchInit ==
    /\ disk = [s \in Sources |-> [kind |-> "absent", text |-> <<>>]]
    /\ roots = {"a.md", "b.md"}
    /\ model = "m1"
    /\ store = {}
    /\ op = IdleOp
    /\ pass = IdlePass
    /\ last = NoSummary
    /\ writes = 0
    /\ calls = 0
    /\ WatchIdle
    /\ OthersIdle

WatchNext ==
    \/ \E k \in Kinds, path \in Sources : Schedule(k, path)
    \/ \E t \in 1..Len(tm) : Elapse(t)
    \/ \E t \in 1..Len(tm) : FirePop(t)
    \/ \E t \in 1..Len(tm) : FireCall(t)
    \/ CancelAll
    \/ ObserverStop

WatchSpec == WatchInit /\ [][WatchNext]_vars

-----------------------------------------------------------------------------
(* C10: the watcher *)

CallbacksBy(t) == {i \in 1..Len(cbLog) : cbLog[i].timer = t}

TimersOf(path) == {t \in 1..Len(tm) : tm[t].path = path}

\* Every event on the file arrived while the timer of the event before it was
\* still waiting, or when no timer was armed for the file (the start of a burst).
EventsInTime(path) == \A t \in TimersOf(path) : ~tm[t].late

\* C10: in a burst of events on one file, each arriving before the timer of
\* the one before elapses, the callback is invoked exactly once: not by the
\* timers of the earlier events, which were cancelled, but by the timer of the
\* last event (the one armed for the file), once, after it has elapsed.
C10_OneCallbackPerBurst ==
    \A path \in Sources :
        (wpc = "running" /\ EventsInTime(path)) =>
            \A t \in TimersOf(path) :
                /\ tm[t].state # "finished" => CallbacksBy(t) = {}
                /\ tm[t].state = "finished" =>
                      /\ Cardinality(CallbacksBy(t)) = 1
                      /\ \A i \in CallbacksBy(t) :
                            cbLog[i].armed = t /\ cbLog[i].path = path

C10_Witness ==
    /\ wpc = "running"
    /\ Len(tm) = MaxEvents
    /\ \A t \in 1..Len(tm) :
          /\ tm[t].path = "a.md" /\ ~tm[t].late
          /\ tm[t].state = IF t < Len(tm) THEN "cancelled" ELSE "finished"
    /\ Len(cbLog) = 1

-----------------------------------------------------------------------------
(* C11: the kind a callback carries *)

\* C11: every invocation of the callback carries the kind of the most recent
\* event that had been scheduled for its file when _fire took the pending
\* entry; the kind of an event before that one is not delivered.
C11_LatestKindWins ==
    \A i \in 1..Len(cbLog) :
        LET t == cbLog[i].timer
        IN  /\ tm[t].newest # 0
            /\ tm[tm[t].newest].path = cbLog[i].path
            /\ cbLog[i].event_type = tm[tm[t].newest].kind

C11_Witness ==
    \E i \in 1..Len(cbLog) :
        LET n == tm[cbLog[i].timer].newest
        IN  /\ n > 1
            /\ \E e \in 1..(n - 1) :
                  /\ tm[e].path = cbLog[i].path
                  /\ tm[e].kind # tm[n].kind
                  /\ \A j \in 1..Len(cbLog) : cbLog[j].timer # e
            /\ cbLog[i].event_type = tm[n].kind

-----------------------------------------------------------------------------
(* C12: timers pending for one file *)

\* The timers of the path that were started, were not cancelled in time and
\* whose _fire has not yet taken the entry of the path.
PendingTimers(path) ==
    {t \in TimersOf(path) : tm[t].state \in {"waiting", "elapsed"}}

\* C12: at every instant every file has at most one pending debounce timer: a
\* new event for the file cancels and replaces the timer there is, whatever
\* the interleaving of event arrival and timer expiry.
C12_AtMostOnePendingTimer ==
    \A path \in Sources : Cardinality(PendingTimers(path)) <= 1

-----------------------------------------------------------------------------
(* C13: FileWatcher.stop *)

\* C13: once FileWatcher.stop() has returned, the registered callback is not
\* invoked any more, for any file, whatever events the observer thread
\* delivered while stop() ran and whatever timers had elapsed by then.
C13_NoCallbackAfterStop == [][wpc = "stopped" => cbLog' = cbLog]_vars

-----------------------------------------------------------------------------
(* embeddings/utils.py batched_embed, and _embed_and_store on top of it *)

\* most texts handed to one call
MaxTexts == 4
\* largest batch limit of a provider, and largest batch_size of _embed_and_store
MaxBatch == 3

BatchTexts == {"p", "q"}
TextLists  == UNION {[1..n -> BatchTexts] : n \in 0..MaxTexts}
\* batch_size as a caller may pass it to batched_embed: any integer
Limits     == -1..MaxBatch

\* Mutant: every call is given the whole list.
TextSlice_Whole(texts, j, limit) == texts

\* utils.py 32: texts[i : i + batch_size]
TextSlice(texts, j, limit) ==
    SubSeq(texts, j + 1, IF j + limit < Len(texts) THEN j + limit ELSE Len(texts))

\* Mutant: the results of a group are put in front of the earlier ones.
Extend_Prepend(results, more) == more \o results

\* utils.py 32 and core.py 154: results.extend(...)
Extend(results, more) == results \o more

\* embed_fn, the backend's unit of work: one vector per text, in order
EmbedFn(texts, model_name) == [k \in 1..Len(texts) |-> Vector(texts[k], model_name)]

\* core.py 152: contents[i : i + batch_size], batch_size being a parameter
ContentsSlice(contents, i, size) ==
    SubSeq(contents, i + 1, IF i + size < Len(contents) THEN i + size ELSE Len(contents))

\* tests/test_embed_batching.py 117-128: n chunks of one source, one line each
MakeChunks(texts) ==
    [k \in 1..Len(texts) |->
        [source |-> "a.md", content |-> texts[k], start_line |-> k, end_line |-> k,
         content_hash |-> content_hash(texts[k])]]

\* batched_embed returns res: to the test that called it, or to the batch loop
\* of _embed_and_store (core.py 153-154), which extends its list and goes on
BatchedReturn(b, res) ==
    IF b.api = "batched_embed"
    THEN [b EXCEPT !.pc = "done", !.outcome = "ok", !.result = res]
    ELSE [b EXCEPT !.embeddings = Extend(@, res),
                   !.i = @ + b.size,
                   !.pc = IF b.i + b.size >= Len(b.chunks) THEN "upsert" ELSE "outer"]

\* an exception leaves batched_embed and, there being no handler, its caller
BatchedRaise(b, exc) == [b EXCEPT !.pc = "done", !.outcome = exc]

\* a test calls batched_embed(texts, embed_fn, batch_size)
BatchedEmbed(texts, limit) ==
    /\ be.pc = "idle"
    /\ be' = [IdleBatch EXCEPT !.pc = "enter", !.api = "batched_embed",
                               !.texts = texts, !.limit = limit]
    /\ UNCHANGED <<syncVars, watchVars, storeVars, moreVars>>

\* utils.py 24-29: the empty list, the batch_size check, the single call
BatchedEmbedEnter ==
    /\ be.pc = "enter"
    /\ IF be.texts = <<>>
       THEN be' = BatchedReturn(be, <<>>)
       ELSE IF be.limit <= 0
       THEN be' = BatchedRaise(be, "ValueError")
       ELSE IF Len(be.texts) <= be.limit
       THEN \E ok \in BOOLEAN :
              LET b1 == [be EXCEPT !.call_log = Append(@, be.texts)]
              IN  be' = IF ok THEN BatchedReturn(b1, EmbedFn(be.texts, model))
                              ELSE BatchedRaise(b1, "error")
       ELSE be' = [be EXCEPT !.pc = "loop", !.j = 0, !.results = <<>>]
    /\ UNCHANGED <<syncVars, watchVars, storeVars, moreVars>>

\* utils.py 31-33: one pass of the loop; after the last one, results is returned
BatchedEmbedLoop ==
    /\ be.pc = "loop"
    /\ LET slice == TextSlice(be.texts, be.j, be.limit)
           b1    == [be EXCEPT !.call_log = Append(@, slice)]
       IN  \E ok \in BOOLEAN :
             IF ok
             THEN LET results == Extend(be.results, EmbedFn(slice, model))
                  IN  be' = IF be.j + be.limit >= Len(be.texts)
                            THEN BatchedReturn(b1, results)
                            ELSE [b1 EXCEPT !.results = results, !.j = @ + be.limit]
             ELSE be' = BatchedRaise(b1, "error")
    /\ UNCHANGED <<syncVars, watchVars, storeVars, moreVars>>

\* core.py 140-149: _embed_and_store(chunks, batch_size=size) on a provider
\* whose embed() is batched_embed(texts, self._embed_batch, limit)
EmbedAndStore(texts, size, limit) ==
    /\ be.pc = "idle"
    /\ LET chunks == MakeChunks(texts)
           b1     == [IdleBatch EXCEPT !.api = "_embed_and_store", !.chunks = chunks,
                                       !.size = size, !.limit = limit]
       IN  be' = IF chunks = <<>>
                 THEN [b1 EXCEPT !.pc = "done", !.outcome = "ok", !.n = 0]
                 ELSE [b1 EXCEPT !.pc = "outer", !.i = 0]
    /\ UNCHANGED <<syncVars, watchVars, storeVars, moreVars>>

\* core.py 151-153: the next batch is handed to self._embedder.embed
OuterBatch ==
    /\ be.pc = "outer"
    /\ LET contents == [k \in 1..Len(be.chunks) |-> be.chunks[k].content]
           batch    == ContentsSlice(contents, be.i, be.size)
       IN  be' = [be EXCEPT !.pc = "enter", !.texts = batch,
                            !.embed_log = Append(@, batch)]
    /\ UNCHANGED <<syncVars, watchVars, storeVars, moreVars>>

\* core.py 156-175: the records are built and upserted in one call
StoreRecords ==
    /\ be.pc = "upsert"
    /\ LET records == BuildRecords(be.chunks, be.embeddings, model)
       IN  /\ store' = upsert(store, records)
           /\ be' = [be EXCEPT !.pc = "done", !.outcome = "ok", !.records = records,
                               !.n = Len(records)]
    /\ UNCHANGED <<disk, roots, model, op, pass, last, writes, calls,
                   watchVars, storeVars, moreVars>>

BatchInit == WatchInit

BatchNext ==
    \/ \E texts \in TextLists, limit \in Limits : BatchedEmbed(texts, limit)
    \/ BatchedEmbedEnter
    \/ BatchedEmbedLoop
    \/ \E texts \in TextLists, size \in 1..MaxBatch, limit \in 1..MaxBatch :
          EmbedAndStore(texts, size, limit)
    \/ OuterBatch
    \/ StoreRecords

BatchSpec == BatchInit /\ [][BatchNext]_vars

-----------------------------------------------------------------------------
(* C14 - C17: batching *)

BatchedEmbedReturned ==
    be.pc = "done" /\ be.api = "batched_embed" /\ be.outcome = "ok"

\* the k-th contiguous group of size limit of texts
Group(texts, k, limit) ==
    SubSeq(texts, (k - 1) * limit + 1,
           IF k * limit < Len(texts) THEN k * limit ELSE Len(texts))

\* C14: batched_embed with batch_size >= 1 that returns has invoked embed_fn
\* not at all for the empty list, once with the whole list when it fits one
\* batch, and otherwise ceil(n / batch_size) times on the contiguous groups of
\* the input, in order, each of batch_size texts but the last, which holds the
\* n - batch_size * (calls - 1) >= 1 that remain.
C14_BatchPartition ==
    (BatchedEmbedReturned /\ be.limit >= 1) =>
        LET n      == Len(be.texts)
            ncalls == Len(be.call_log)
        IN  /\ n = 0 => (ncalls = 0 /\ be.result = <<>>)
            /\ (1 <= n /\ n <= be.limit) => be.call_log = <<be.texts>>
            /\ n > be.limit =>
                  /\ ncalls = (n + be.limit - 1) \div be.limit
                  /\ \A k \in 1..ncalls : be.call_log[k] = Group(be.texts, k, be.limit)
                  /\ \A k \in 1..(ncalls - 1) : Len(be.call_log[k]) = be.limit
                  /\ Len(be.call_log[ncalls]) = n - be.limit * (ncalls - 1)
                  /\ Len(be.call_log[ncalls]) >= 1

C14_Witness ==
    /\ BatchedEmbedReturned
    /\ be.limit = MaxBatch
    /\ Len(be.texts) = MaxTexts
    /\ Len(be.call_log) = 2
    /\ Len(be.call_log[2]) = MaxTexts - MaxBatch

\* C15: the result of batched_embed is the concatenation of the groups'
\* results in group order: as long as the input, its i-th element the result
\* for the i-th text.
C15_BatchOrderPreserved ==
    (BatchedEmbedReturned /\ be.limit >= 1) =>
        /\ Len(be.result) = Len(be.texts)
        /\ \A i \in 1..Len(be.texts) : be.result[i] = Vector(be.texts[i], model)

C15_Witness ==
    /\ BatchedEmbedReturned
    /\ Len(be.call_log) >= 2
    /\ Len(be.texts) = MaxTexts
    /\ be.texts[1] # be.texts[MaxTexts]
    /\ be.result[1] # be.result[MaxTexts]

\* C16: batched_embed called with batch_size <= 0 raises ValueError and does
\* not invoke embed_fn, whatever the list of texts.
C16_InvalidBatchSizeRejected ==
    (be.pc = "done" /\ be.api = "batched_embed" /\ be.limit <= 0) =>
        (be.outcome = "ValueError" /\ be.call_log = <<>>)

RECURSIVE SumLen(_)
SumLen(seqs) == IF seqs = <<>> THEN 0 ELSE Len(Head(seqs)) + SumLen(Tail(seqs))

\* C17: _embed_and_store on a provider with batch limit b >= 1 that returns has
\* given every backend call between 1 and b texts, len(chunks) texts in all,
\* has upserted one record per chunk, carrying the vector of that chunk's
\* content, and returns len(chunks); for no chunks it calls nothing, upserts
\* nothing and returns 0.
C17_EmbedAndStoreRespectsLimit ==
    (be.pc = "done" /\ be.api = "_embed_and_store" /\ be.outcome = "ok") =>
        /\ \A k \in 1..Len(be.call_log) :
              1 <= Len(be.call_log[k]) /\ Len(be.call_log[k]) <= be.limit
        /\ SumLen(be.call_log) = Len(be.chunks)
        /\ Len(be.records) = Len(be.chunks)
        /\ \A k \in 1..Len(be.chunks) :
              /\ be.records[k].content = be.chunks[k].content
              /\ be.records[k].embedding = Vector(be.chunks[k].content, model)
              /\ be.records[k] \in store
        /\ Cardinality(store) = Len(be.chunks)
        /\ be.n = Len(be.chunks)
        /\ be.chunks = <<>> => (be.call_log = <<>> /\ store = {})

C17_Witness ==
    /\ be.pc = "done" /\ be.api = "_embed_and_store" /\ be.outcome = "ok"
    /\ Len(be.chunks) = MaxTexts
    /\ be.limit = 2 /\ be.size = MaxBatch
    /\ Len(be.call_log) = 3
    /\ be.chunks[1].content # be.chunks[2].content

-----------------------------------------------------------------------------
(* MilvusStore as its callers use it, and MemSearch.search *)

\* largest embedding dimension
MaxDim == 2
\* largest top_k of a search
MaxTopK == 2

StoreSources == {"a.md", "b.md", QuotedName, InjectedName}
Hashes       == {"h1", "h2"}

\* The records a caller may hand to upsert.
StoreChunks ==
    {[chunk_hash |-> h, embedding |-> [k \in 1..d |-> 0], content |-> "p",
      source |-> src, start_line |-> 1, end_line |-> 1] :
        h \in Hashes, src \in StoreSources, d \in 1..MaxDim}

\* Lists of records with distinct primary keys.
ChunkLists ==
    {<<>>} \cup {<<x>> : x \in StoreChunks}
           \cup {<<x, y>> : x \in {z \in StoreChunks : z.chunk_hash = "h1"},
                            y \in {z \in StoreChunks : z.chunk_hash = "h2"}}

StoreOpen == db.dimension # 0

\* what a call leaves in db: its name, its outcome and the store before it
Called(name, outcome) ==
    [db EXCEPT !.call = name, !.outcome = outcome, !.before = store,
               !.source = "", !.top_k = 0, !.hits = {}, !.chunk_ids = {}]

\* store.py 14-64: MilvusStore(uri, dimension=dimension); _ensure_collection
\* returns at once when the collection exists, and creates it otherwise
Open(dimension) ==
    /\ ~StoreOpen
    /\ db' = [Called("open", "ok") EXCEPT
                !.dimension = dimension,
                !.dim = IF db.dim # 0 THEN db.dim ELSE dimension]
    /\ UNCHANGED <<syncVars, watchVars, batchVars, moreVars>>

\* store.py 170-171
Close ==
    /\ StoreOpen
    /\ db' = [Called("close", "ok") EXCEPT !.dimension = 0]
    /\ UNCHANGED <<syncVars, watchVars, batchVars, moreVars>>

\* store.py 78-86; Milvus rejects a request holding a vector whose length is
\* not the collection's dimension
Upsert(chunks) ==
    /\ StoreOpen
    /\ IF chunks = <<>>
       THEN store' = store /\ db' = Called("upsert", "ok")
       ELSE IF \E i \in 1..Len(chunks) : Len(chunks[i].embedding) # db.dim
       THEN store' = store /\ db' = Called("upsert", "MilvusException")
       ELSE store' = upsert(store, chunks) /\ db' = Called("upsert", "ok")
    /\ UNCHANGED <<disk, roots, model, op, pass, last, writes, calls,
                   watchVars, batchVars, moreVars>>

\* store.py 144-149; Milvus rejects a filter that is not an expression
DeleteBySource(source) ==
    /\ StoreOpen
    /\ store' = delete_by_source(store, source)
    /\ db' = [Called("delete_by_source",
                     IF FilterValid(SourceFilter(source)) THEN "ok"
                     ELSE "MilvusException") EXCEPT !.source = source]
    /\ UNCHANGED <<disk, roots, model, op, pass, last, writes, calls,
                   watchVars, batchVars, moreVars>>

\* store.py 151-158
DeleteByHashes(hashes) ==
    /\ StoreOpen
    /\ store' = delete_by_hashes(store, hashes)
    /\ db' = Called("delete_by_hashes", "ok")
    /\ UNCHANGED <<disk, roots, model, op, pass, last, writes, calls,
                   watchVars, batchVars, moreVars>>

\* core.py 114-117: a chunk's identifier is computed from its source, so no
\* record of another source carries it.
OwnIds(st, source, chunks) ==
    \A i \in 1..Len(chunks) :
        /\ chunks[i].source = source
        /\ \A r \in st : r.chunk_hash = chunks[i].chunk_hash => r.source = source

\* core.py 103-138 as the store sees it: _index_file(f) of a file whose chunks
\* become the records chunks (force off).  The query of line 118 raises when
\* Milvus rejects the filter; the embedding call of line 138 may fail; the
\* vectors have the embedder's dimension.
IndexFileOnStore(source, chunks) ==
    /\ StoreOpen
    /\ OwnIds(store, source, chunks)
    /\ \A i \in 1..Len(chunks) : Len(chunks[i].embedding) = db.dimension
    /\ LET chunk_ids == {chunks[i].chunk_hash : i \in 1..Len(chunks)}
           old_ids   == hashes_by_source(store, source)
           stale     == StaleIds(old_ids, chunk_ids)
           kept      == IF stale = {} THEN store ELSE delete_by_hashes(store, stale)
           new       == SelectSeq(chunks, LAMBDA c : c.chunk_hash \notin old_ids)
           done(outcome) ==
               [Called("_index_file", outcome) EXCEPT
                   !.source = source, !.chunk_ids = chunk_ids]
       IN  IF ~FilterValid(SourceFilter(source))
           THEN store' = store /\ db' = done("MilvusException")
           ELSE IF new = <<>>
           THEN store' = kept /\ db' = done("ok")
           ELSE \E embedded \in BOOLEAN :
                   IF ~embedded
                   THEN store' = kept /\ db' = done("error")
                   ELSE IF db.dimension # db.dim
                   THEN store' = kept /\ db' = done("MilvusException")
                   ELSE store' = upsert(kept, new) /\ db' = done("ok")
    /\ UNCHANGED <<disk, roots, model, op, pass, last, writes, calls,
                   watchVars, batchVars, moreVars>>

\* store.py 88-94: the parameters of MilvusStore.search
SearchParams == {"query_embedding", "top_k", "filter_expr"}

\* core.py 203: self._store.search(embeddings[0], query_text=query, top_k=top_k)
SearchKeywords == {"query_text", "top_k"}

\* A Python call binds when every keyword names a parameter; else TypeError.
Binds(keywords, params) == keywords \subseteq params

\* store.py 107-110: one result per hit, the entity's fields and the score
Hit(r) ==
    [content |-> r.content, source |-> r.source, chunk_hash |-> r.chunk_hash,
     start_line |-> r.start_line, end_line |-> r.end_line, score |-> 0]

\* store.py 96-110: Milvus returns the top_k nearest records, fewer when the
\* collection holds fewer, and rejects a query vector of another dimension
StoreSearch(name, query_dim, top_k) ==
    IF query_dim # db.dim
    THEN db' = [Called(name, "MilvusException") EXCEPT !.top_k = top_k]
    ELSE \E found \in SUBSET store :
            /\ Cardinality(found)
                  = (IF Cardinality(store) < top_k THEN Cardinality(store) ELSE top_k)
            /\ db' = [Called(name, "ok") EXCEPT
                        !.top_k = top_k, !.hits = {Hit(r) : r \in found}]

\* core.py 181-203: MemSearch.search(query, top_k=top_k); the query is embedded
\* by the provider whose dimension the store was opened with
Search(top_k) ==
    /\ StoreOpen
    /\ \E ok \in BOOLEAN :
          IF ~ok
          THEN db' = [Called("search", "error") EXCEPT !.top_k = top_k]
          ELSE IF ~Binds(SearchKeywords, SearchParams)
          THEN db' = [Called("search", "TypeError") EXCEPT !.top_k = top_k]
          ELSE StoreSearch("search", db.dimension, top_k)
    /\ UNCHANGED <<syncVars, watchVars, batchVars, moreVars>>

\* a caller of the store itself: store.search(query_embedding, top_k=top_k)
SearchStore(query_dim, top_k) ==
    /\ StoreOpen
    /\ StoreSearch("store.search", query_dim, top_k)
    /\ UNCHANGED <<syncVars, watchVars, batchVars, moreVars>>

StoreInit == WatchInit

StoreNext ==
    \/ \E dimension \in 1..MaxDim : Open(dimension)
    \/ Close
    \/ \E chunks \in ChunkLists : Upsert(chunks)
    \/ \E source \in StoreSources : DeleteBySource(source)
    \/ \E hashes \in SUBSET Hashes : DeleteByHashes(hashes)
    \/ \E source \in StoreSources, chunks \in ChunkLists : IndexFileOnStore(source, chunks)
    \/ \E top_k \in 1..MaxTopK : Search(top_k)
    \/ \E query_dim \in 1..MaxDim, top_k \in 1..MaxTopK : SearchStore(query_dim, top_k)

StoreSpec == StoreInit /\ [][StoreNext]_vars

-----------------------------------------------------------------------------
(* C18 - C20: the store *)

\* C18: opening a MilvusStore on an existing collection with a dimension other
\* than the collection's fails with ValueError, and no stored vector has a
\* length other than the collection's dimension.
C18_DimensionMismatchRejected ==
    /\ (db.call = "open" /\ db.dimension # db.dim) => db.outcome = "ValueError"
    /\ \A r \in store : Len(r.embedding) = db.dim

\* C19: delete_by_source(s) removes every record whose source is s and leaves
\* every record of another source as it was; afterwards hashes_by_source(s) is
\* empty and s is not among indexed_sources().
C19_DeleteBySourceFrame ==
    db.call = "delete_by_source" =>
        /\ store = {r \in db.before : r.source # db.source}
        /\ hashes_by_source(store, db.source) = {}
        /\ db.source \notin indexed_sources(store)

\* C20: once a chunk is stored, MemSearch.search(query, top_k=k) whose query
\* was embedded completes without error and returns between 1 and k records,
\* each with content and score.
C20_SearchAfterIndexSucceeds ==
    (db.call = "search" /\ db.before # {} /\ db.outcome # "error") =>
        /\ db.outcome = "ok"
        /\ 1 <= Cardinality(db.hits) /\ Cardinality(db.hits) <= db.top_k
        /\ \A h \in db.hits : {"content", "score"} \subseteq DOMAIN h

-----------------------------------------------------------------------------
(* C25 - C27: more on the per-file re-index *)

\* a per-file re-index that got past reading the file
OpStarted == op.pc # "idle" /\ op.failed_at # "read"

\* C25: in a per-file re-index the stale identifiers (stored - current) are
\* deleted before any embedding call and before any upsert, so the identifiers
\* stored for the source never mix one that only the old generation has with
\* one that only the current generation has.
C25_DeleteBeforeInsert ==
    OpStarted =>
        LET stored == hashes_by_source(store, op.source)
        IN  /\ \A i, j \in 1..Len(op.log) :
                  (op.log[i] = "delete" /\ op.log[j] \in {"embed", "upsert"}) => i < j
            /\ (op.old_ids \ op.chunk_ids # {} /\ op.embeds # <<>>) =>
                  (op.log[1] = "delete" /\ Deleted(op) = op.old_ids \ op.chunk_ids)
            /\ ~(/\ stored \cap (op.old_ids \ op.chunk_ids) # {}
                 /\ stored \cap (op.chunk_ids \ op.old_ids) # {})

C25_Witness ==
    /\ OpOk
    /\ op.old_ids \ op.chunk_ids # {}
    /\ op.chunk_ids \ op.old_ids # {}
    /\ op.log = <<"delete", "embed", "upsert">>
    /\ hashes_by_source(store, op.source) = op.chunk_ids

\* C26: a per-file re-index with force embeds and upserts every current chunk
\* of the file, whatever is stored, and returns the number of chunks; forcing
\* the re-index of an unchanged file leaves the identifiers stored for the
\* source and the record count of the store as they were.
C26_ForceReembedsAll ==
    (OpOk /\ op.force) =>
        /\ SentTexts(op.embeds) = [k \in 1..Len(op.all_chunks) |-> op.all_chunks[k].content]
        /\ UpsertedIds(op) = op.chunk_ids
        /\ Len(UpsertedRecords(op)) = Len(op.all_chunks)
        /\ op.ret = Len(op.all_chunks)
        /\ (/\ Reindexes /\ op.prev.text = op.text /\ op.prev.model = op.model
            /\ last = Summary(op)) =>
              /\ hashes_by_source(store, op.source) = op.old_ids
              /\ op.old_ids = op.chunk_ids
              /\ count(store) = op.count0

C26_Witness ==
    /\ OpOk /\ op.force
    /\ Reindexes /\ op.prev.text = op.text /\ op.prev.model = op.model
    /\ last = Summary(op)
    /\ Len(op.all_chunks) = MaxSections
    /\ op.ret = MaxSections
    /\ op.old_ids # {}

\* C27: when the file chunks to nothing, a per-file re-index deletes every
\* identifier stored for the source, calls neither the embedder nor upsert and
\* returns 0, with force or without.
C27_EmptyFile ==
    (OpStarted /\ op.pc = "done" /\ op.all_chunks = <<>>) =>
        /\ op.outcome = "ok" /\ op.ret = 0
        /\ Deleted(op) = op.old_ids
        /\ op.embeds = <<>> /\ op.upserts = <<>>
        /\ hashes_by_source(store, op.source) = {}

C27_Witness ==
    /\ OpStarted /\ op.pc = "done" /\ op.all_chunks = <<>>
    /\ op.old_ids # {}
    /\ op.force
    /\ op.ret = 0

-----------------------------------------------------------------------------
(* C30: superseded timers *)

\* C30: once a later event has restarted the debounce timer of a file, the
\* earlier timer neither invokes the callback nor removes the newer timer's
\* entry: a _fire that has taken the entries of its path was run by the timer
\* registered for the path (or found no entry), and a callback is delivered
\* by the timer of the most recent event only.
C30_SupersededTimerNeverDelivers ==
    \A t \in 1..Len(tm) :
        tm[t].state \in {"popped", "finished"} =>
            /\ tm[t].armed \in {0, t}
            /\ CallbacksBy(t) # {} => tm[t].newest = t

-----------------------------------------------------------------------------
(* C29: delivery *)

\* Every timer thread gets to run: a started timer's wait ends unless it is
\* cancelled, an elapsed timer gets the lock, and a _fire past the lock goes on
\* to its callback.
TimerFairness ==
    \A t \in 1..MaxEvents :
        /\ WF_vars(t <= Len(tm) /\ Elapse(t))
        /\ WF_vars(t <= Len(tm) /\ FirePop(t))
        /\ WF_vars(t <= Len(tm) /\ FireCall(t))

FairWatchSpec == WatchInit /\ [][WatchNext]_vars /\ TimerFairness

\* The callback was invoked for the file of event e with the kind of e or of a
\* later event for that file.
DeliveredSince(e) ==
    /\ e <= Len(tm)
    /\ \E i \in 1..Len(cbLog) :
          /\ cbLog[i].path = tm[e].path
          /\ tm[cbLog[i].timer].newest >= e
          /\ cbLog[i].event_type = tm[tm[cbLog[i].timer].newest].kind

\* No event for the path since the _fire of timer t took its entries.
NoEventSince(t) == tm[t].newest = NewestEvent(tm[t].path)

\* C29: an event scheduled for a markdown file on a watcher that is not being
\* stopped is eventually followed by an invocation of the callback with the
\* kind of that event or of a later one for the same file; an expiry that
\* finds a pending entry invokes the callback once, and leaves the file with no
\* pending entry and no timer entry until the next event.
C29_SettledChangeDelivered ==
    /\ \A e \in 1..MaxEvents :
          (e <= Len(tm) /\ wpc = "running") ~> (DeliveredSince(e) \/ wpc # "running")
    /\ [](\A t \in 1..Len(tm) :
            /\ (tm[t].state = "finished" /\ tm[t].event_type # "") =>
                  Cardinality(CallbacksBy(t)) = 1
            /\ (tm[t].state \in {"popped", "finished"} /\ NoEventSince(t)) =>
                  (pending[tm[t].path] = "" /\ timers[tm[t].path] = 0))

C29_Witness ==
    /\ wpc = "running"
    /\ Len(tm) = MaxEvents
    /\ \A e \in 1..MaxEvents : DeliveredSince(e) /\ tm[e].path = "a.md"
    /\ Len(cbLog) = 1
    /\ pending["a.md"] = "" /\ timers["a.md"] = 0

-----------------------------------------------------------------------------
(* MemSearch.watch: the callback handed to the FileWatcher *)

\* Mutant: deletions are handled like changes.
IsDeletion_Never(event_type) == FALSE

\* core.py 314: event_type == "deleted"
IsDeletion(event_type) == event_type = "deleted"

\* The records a successful re-index of the file text stores for the source.
IndexedRecords(source, text, model_name) ==
    LET chunks == chunk_markdown(text, source)
    IN  Range(BuildRecords(chunks,
                           [k \in 1..Len(chunks) |-> Vector(chunks[k].content, model_name)],
                           model_name))

\* core.py 313-320: _on_change(event_type, file_path), called by a timer
\* thread of the watcher; on_event is the optional hook given to watch()
OnChange(event_type, path, on_event) ==
    /\ OpFree /\ cb.pc \in {"idle", "done"}
    /\ calls < MaxCalls
    /\ calls' = calls + 1
    /\ LET c1 == [IdleCallback EXCEPT !.event_type = event_type, !.path = path,
                                      !.on_event = on_event, !.op0 = op,
                                      !.before = RecordsOf(store, path)]
       IN  IF IsDeletion(event_type)
           THEN /\ store' = delete_by_source(store, path)
                /\ cb' = [c1 EXCEPT !.pc = "hook", !.summary = "Removed"]
                /\ UNCHANGED <<op, last>>
           ELSE /\ BeginIndexFile(path, FALSE, "watch")
                /\ cb' = [c1 EXCEPT !.pc = "indexing"]
                /\ store' = store
    /\ UNCHANGED <<disk, roots, model, pass, writes, watchVars, extraVars, batchVars, storeVars,
                   configVars, providerVars>>

\* core.py 318-319: asyncio.run(self.index_file(file_path)) has returned n, or
\* its exception leaves _on_change
OnChangeIndexed ==
    /\ cb.pc = "indexing" /\ op.pc = "done"
    /\ cb' = IF op.outcome = "ok"
             THEN [cb EXCEPT !.pc = "hook", !.summary = "Indexed"]
             ELSE [cb EXCEPT !.pc = "done", !.outcome = "error"]
    /\ UNCHANGED <<syncVars, watchVars, extraVars, batchVars, storeVars, configVars, providerVars>>

\* core.py 320-322: the summary is logged and the hook, if any, invoked
OnChangeHook ==
    /\ cb.pc = "hook"
    /\ cb' = [cb EXCEPT !.pc = "done", !.outcome = "ok",
                        !.hooks = IF cb.on_event
                                  THEN Append(@, [event_type |-> cb.event_type,
                                                  summary |-> cb.summary,
                                                  path |-> cb.path,
                                                  store |-> store,
                                                  op_pc |-> op.pc])
                                  ELSE @]
    /\ UNCHANGED <<syncVars, watchVars, extraVars, batchVars, storeVars, configVars, providerVars>>

\* The store holds what earlier runs left: for each source of some set, the
\* records of a text the file once had.
CallbackInit ==
    /\ disk \in {d \in [Sources -> FileStates] : \A s \in Sources : d[s] \in FileStatesOf(s)}
    /\ roots = {"a.md", "b.md"}
    /\ model = "m1"
    /\ \E S \in SUBSET Sources :
          store = UNION {IndexedRecords(src, <<"p">>, model) : src \in S}
    /\ op = IdleOp
    /\ pass = IdlePass
    /\ last = NoSummary
    /\ writes = 0
    /\ calls = 0
    /\ WatchIdle
    /\ OthersIdle

CallbackNext ==
    \/ \E k \in Kinds, path \in Sources, on_event \in BOOLEAN : OnChange(k, path, on_event)
    \/ DeleteStale
    \/ EmbedBatch
    \/ UpsertRecords
    \/ OnChangeIndexed
    \/ OnChangeHook
    \/ \E src \in Sources : \E f \in FileStatesOf(src) : WriteFile(src, f)

CallbackSpec == CallbackInit /\ [][CallbackNext]_vars

-----------------------------------------------------------------------------
(* C28: dispatch by kind *)

\* C28: a callback with kind "deleted" removes every record of the source and
\* makes no chunking or embedding call; one with "created" or "modified" runs
\* the per-file re-index of that file; the on_event hook is invoked only once
\* the store operation has completed, with the same kind and path.
C28_DispatchByKind ==
    /\ (cb.pc \in {"hook", "done"} /\ cb.event_type = "deleted") =>
          /\ RecordsOf(store, cb.path) = {}
          /\ op = cb.op0
    /\ (cb.pc # "idle" /\ cb.event_type \in {"created", "modified"}) =>
          /\ op.caller = "watch" /\ op.source = cb.path /\ ~op.force
          /\ op.pc # "idle"
          /\ (cb.pc = "done" /\ cb.outcome = "ok") =>
                (OpOk /\ hashes_by_source(store, cb.path) = op.chunk_ids)
    /\ Len(cb.hooks) = (IF cb.pc = "done" /\ cb.outcome = "ok" /\ cb.on_event THEN 1 ELSE 0)
    /\ \A i \in 1..Len(cb.hooks) :
          /\ cb.hooks[i].event_type = cb.event_type
          /\ cb.hooks[i].path = cb.path
          /\ cb.hooks[i].store = store
          /\ cb.hooks[i].op_pc # "running"
          /\ cb.event_type # "deleted" => cb.hooks[i].op_pc = "done"

C28_Witness ==
    /\ cb.pc = "done" /\ cb.outcome = "ok"
    /\ cb.event_type = "deleted"
    /\ cb.before # {}
    /\ cb.op0.caller = "watch" /\ cb.op0.pc = "done" /\ cb.op0.outcome = "ok"
    /\ cb.op0.upserts # <<>>
    /\ Len(cb.hooks) = 1
    /\ store # {}

-----------------------------------------------------------------------------
(* Embedding providers: the registry, get_provider, the constructors *)

\* embeddings/__init__.py 21-27: the keys of _PROVIDERS, in the order written
Registry == <<"openai", "google", "voyage", "ollama", "local">>

ProviderNames == Range(Registry)

\* Names a caller may pass: the registered ones and two that are not.
NameArgs == ProviderNames \cup {"cohere", "OpenAI"}

\* Python's order on these strings (code points; upper case before lower case).
StrRank(name) ==
    CASE name = "OpenAI" -> 0
      [] name = "cohere" -> 1
      [] name = "google" -> 2
      [] name = "local"  -> 3
      [] name = "ollama" -> 4
      [] name = "openai" -> 5
      [] name = "voyage" -> 6

\* Mutant: the error names no provider.
Available_None == <<>>

\* embeddings/__init__.py 70: sorted(_PROVIDERS)
Available == SortSeq(Registry, LAMBDA a, b : StrRank(a) < StrRank(b))

\* openai.py 17, voyage.py 14, ollama.py 14, local.py 16: _DEFAULT_BATCH_SIZE;
\* google.py 42: the fixed batch of GoogleEmbedding.embed
DEFAULT_BATCH_SIZE(name) ==
    CASE name = "openai" -> 2048
      [] name = "voyage" -> 128
      [] name = "ollama" -> 512
      [] name = "local"  -> 512
      [] name = "google" -> 100

\* google.py 23: GoogleEmbedding.__init__ has no batch_size parameter
AcceptsBatchSize(name) == name # "google"

\* The provider's dimension property, scaled to the store's small dimensions.
ProviderDimension(name) == IF name \in {"openai", "voyage"} THEN 2 ELSE 1

\* The batch size a call passes: any integer when given, the parameter's
\* default 0 when left out.
BatchSizeArgs(given) == IF given THEN -1..MaxBatch ELSE {0}

\* openai.py 19-32 (voyage.py 16-24, ollama.py 16-27, local.py 18-42 alike),
\* google.py 23-28: cls(**kwargs), kwargs holding batch_size when `passed`
Constructed(p, passed, size) ==
    LET p1 == [p EXCEPT !.log = Append(@, "construct")]
    IN  IF passed /\ ~AcceptsBatchSize(p.name)
        THEN [p1 EXCEPT !.pc = "done", !.outcome = "TypeError"]
        ELSE [p1 EXCEPT !.pc = "ready", !.outcome = "ok",
                        !.limit = IF AcceptsBatchSize(p.name) /\ size > 0
                                  THEN size
                                  ELSE DEFAULT_BATCH_SIZE(p.name)]

\* embeddings/__init__.py 49-91: get_provider(name, batch_size=batch_size);
\* `installed` says whether the provider's module can be imported
get_provider(p, name, given, size, installed) ==
    LET p0 == [p EXCEPT !.name = name, !.given = given, !.batch_size = size]
    IN  IF name \notin ProviderNames
        THEN [p0 EXCEPT !.pc = "done", !.outcome = "ValueError", !.message = Available]
        ELSE LET p1 == [p0 EXCEPT !.log = Append(@, "import")]
             IN  IF ~installed
                 THEN [p1 EXCEPT !.pc = "done", !.outcome = "ImportError"]
                 ELSE Constructed(p1, size > 0, size)

\* a caller's get_provider(name) or get_provider(name, batch_size=b)
GetProvider(name, given, size, installed) ==
    /\ pv.pc = "idle"
    /\ pv' = get_provider([pv EXCEPT !.call = "get_provider"], name, given, size,
                          installed)
    /\ UNCHANGED <<syncVars, watchVars, extraVars, batchVars, storeVars, callbackVars, configVars>>

\* a caller's OpenAIEmbedding(), OpenAIEmbedding(batch_size=b) and the like
Construct(name, given, size) ==
    /\ pv.pc = "idle"
    /\ pv' = Constructed([pv EXCEPT !.call = "constructor", !.name = name,
                                    !.given = given, !.batch_size = size],
                         given, size)
    /\ UNCHANGED <<syncVars, watchVars, extraVars, batchVars, storeVars, callbackVars, configVars>>

\* core.py 46-67: MemSearch(embedding_provider=name); get_provider first, then
\* MilvusStore on the provider's dimension
NewMemSearch(name, installed) ==
    /\ pv.pc = "idle" /\ ~StoreOpen
    /\ LET p1 == get_provider([pv EXCEPT !.call = "MemSearch"], name, FALSE, 0, installed)
       IN  IF p1.outcome = "ok"
           THEN /\ pv' = [p1 EXCEPT !.log = Append(@, "MilvusStore")]
                /\ db' = [Called("open", "ok") EXCEPT
                            !.dimension = ProviderDimension(name),
                            !.dim = IF db.dim # 0 THEN db.dim ELSE ProviderDimension(name)]
           ELSE /\ pv' = p1
                /\ db' = db
    /\ UNCHANGED <<syncVars, watchVars, extraVars, batchVars, callbackVars, configVars>>

\* openai.py 42-45 (voyage, ollama, local alike): the first embed(texts) of the
\* provider enters batched_embed with self._batch_size; google.py 36-52: its
\* own loop over batches of 100
ProviderEmbed(texts) ==
    /\ pv.pc = "ready" /\ be.pc = "idle"
    /\ pv' = [pv EXCEPT !.pc = "embed"]
    /\ IF AcceptsBatchSize(pv.name)
       THEN be' = [IdleBatch EXCEPT !.pc = "enter", !.api = "batched_embed",
                                    !.texts = texts, !.limit = pv.limit]
       ELSE \E ok \in BOOLEAN :
              LET n  == (Len(texts) + DEFAULT_BATCH_SIZE(pv.name) - 1)
                            \div DEFAULT_BATCH_SIZE(pv.name)
                  cl == [k \in 1..n |->
                            TextSlice(texts, (k - 1) * DEFAULT_BATCH_SIZE(pv.name),
                                      DEFAULT_BATCH_SIZE(pv.name))]
                  b1 == [IdleBatch EXCEPT !.api = "google.embed", !.texts = texts,
                                          !.limit = DEFAULT_BATCH_SIZE(pv.name),
                                          !.call_log = cl]
              IN  be' = IF ok \/ texts = <<>>
                        THEN [b1 EXCEPT !.pc = "done", !.outcome = "ok",
                                        !.result = EmbedFn(texts, model)]
                        ELSE [b1 EXCEPT !.pc = "done", !.outcome = "error"]
    /\ UNCHANGED <<syncVars, watchVars, extraVars, storeVars, callbackVars, configVars>>

ProviderInit == WatchInit

ProviderNext ==
    \/ \E name \in NameArgs, given \in BOOLEAN, installed \in BOOLEAN :
          \E b \in BatchSizeArgs(given) : GetProvider(name, given, b, installed)
    \/ \E name \in ProviderNames, given \in BOOLEAN :
          \E b \in BatchSizeArgs(given) : Construct(name, given, b)
    \/ \E name \in NameArgs, installed \in BOOLEAN : NewMemSearch(name, installed)
    \/ \E texts \in TextLists : ProviderEmbed(texts)
    \/ BatchedEmbedEnter
    \/ BatchedEmbedLoop

ProviderSpec == ProviderInit /\ [][ProviderNext]_vars

-----------------------------------------------------------------------------
(* C21, C22: configuration errors of the embedding layer *)

\* C21: get_provider with a name outside the registry raises ValueError whose
\* message lists exactly the registered names, and no backend module has been
\* imported and no provider constructed; when MemSearch(...) is the caller, the
\* vector store has been neither opened nor created.
C21_UnknownProviderFailsFast ==
    (pv.call \in {"get_provider", "MemSearch"} /\ pv.name \notin ProviderNames) =>
        /\ pv.outcome = "ValueError"
        /\ Range(pv.message) = ProviderNames
        /\ Len(pv.message) = Cardinality(ProviderNames)
        /\ pv.log = <<>>
        /\ db = NoDb

C21_Witness ==
    /\ pv.call = "MemSearch"
    /\ pv.name = "OpenAI"
    /\ pv.outcome = "ValueError"
    /\ pv.message[1] = "google"

\* C22: a batch size <= 0 given to a provider's constructor or to get_provider
\* is rejected at construction or makes the first embed call fail; the provider
\* never ends up working with a default batch size in its place.
C22_InvalidBatchSizeNeverDefaults ==
    (pv.call \in {"get_provider", "constructor"} /\ pv.given /\ pv.batch_size <= 0) =>
        /\ pv.outcome = "ok" => pv.limit <= 0
        /\ (pv.pc = "embed" /\ be.pc = "done") => be.outcome = "ValueError"

-----------------------------------------------------------------------------
(* Configuration: the layers, deep_merge, resolve_config, get and set *)

\* The number of set_config_value calls of one behaviour.
MaxSets == 2

\* config.py 72-78: the keys of _SECTION_CLASSES
SectionOrder == <<"milvus", "embedding", "compact", "chunking", "watch">>

Sections == Range(SectionOrder)

\* config.py 31-58: the fields of each section's dataclass
FieldOrder(section) ==
    CASE section = "milvus"    -> <<"uri", "token", "collection">>
      [] section = "embedding" -> <<"provider", "model">>
      [] section = "compact"   -> <<"llm_provider", "llm_model", "prompt_file">>
      [] section = "chunking"  -> <<"max_chunk_size", "overlap_lines">>
      [] section = "watch"     -> <<"debounce_ms">>

Fields(section) == Range(FieldOrder(section))

\* config.py 28
INT_FIELDS == {"max_chunk_size", "overlap_lines", "debounce_ms"}

\* config.py 31-58: the dataclass defaults
Default(section, field) ==
    CASE field = "uri"            -> PyStr("~/.memsearch/milvus.db")
      [] field = "collection"     -> PyStr("memsearch_chunks")
      [] field = "provider"       -> PyStr("openai")
      [] field = "llm_provider"   -> PyStr("openai")
      [] field = "max_chunk_size" -> PyInt(1500)
      [] field = "overlap_lines"  -> PyInt(2)
      [] field = "debounce_ms"    -> PyInt(1500)
      [] OTHER                    -> PyStr("")

\* A nested dict as a value: section -> field -> value.
DefaultLayer == [sec \in Sections |-> [f \in Fields(sec) |-> Default(sec, f)]]

\* d[k] = v on a dict
Put(d, k, v) == [x \in DOMAIN d \cup {k} |-> IF x = k THEN v ELSE d[x]]

\* The keys of a dict, one after the other (what the merge computes does not
\* depend on the order).
KeyOrder ==
    SectionOrder \o FieldOrder("milvus") \o FieldOrder("embedding")
        \o FieldOrder("compact") \o FieldOrder("chunking") \o FieldOrder("watch")

KeysOf(d) == SelectSeq(KeyOrder, LAMBDA k : k \in DOMAIN d)

\* int(): the decimal strings the model uses, and the integers they denote
Numeric(str) == str \in {"2", "7", "8", "9", "1500"}

ParseInt(str) ==
    CASE str = "2" -> 2 [] str = "7" -> 7 [] str = "8" -> 8 [] str = "9" -> 9
      [] str = "1500" -> 1500

Digits(n) ==
    CASE n = 2 -> "2" [] n = 7 -> "7" [] n = 8 -> "8" [] n = 9 -> "9"
      [] n = 1500 -> "1500"

\* tomli_w: a string is written between double quotes, an integer as digits
Literal(v) == IF v.t = "str" THEN <<Quote, v.s, Quote>> ELSE <<Digits(v.n)>>

\* tomllib: a quoted literal is a str, a run of digits an int
ParseLiteral(toks) ==
    IF toks[1] = Quote THEN PyStr(toks[2]) ELSE PyInt(ParseInt(toks[1]))

RECURSIVE DumpFields(_, _)
DumpFields(d, fs) ==
    IF fs = <<>> THEN <<>>
    ELSE <<(<<Head(fs), "=">> \o Literal(d[Head(fs)]))>> \o DumpFields(d, Tail(fs))

RECURSIVE DumpTables(_, _)
DumpTables(layer, secs) ==
    IF secs = <<>> THEN <<>>
    ELSE <<(<<"[", Head(secs), "]">>)>>
            \o DumpFields(layer[Head(secs)], KeysOf(layer[Head(secs)]))
            \o DumpTables(layer, Tail(secs))

\* config.py 140-145: save_config writes the dict as TOML, one table per section
save_config(cfg_dict) == [exists |-> TRUE, lines |-> DumpTables(cfg_dict, KeysOf(cfg_dict))]

RECURSIVE ParseLines(_, _, _)
ParseLines(lines, section, doc) ==
    IF lines = <<>> THEN doc
    ELSE LET l == Head(lines)
         IN  IF l[1] = "["
             THEN ParseLines(Tail(lines), l[2], Put(doc, l[2], <<>>))
             ELSE ParseLines(Tail(lines), section,
                             Put(doc, section,
                                 Put(doc[section], l[1],
                                     ParseLiteral(SubSeq(l, 3, Len(l))))))

\* config.py 86-92: {} when the file is missing, the parsed TOML otherwise
load_config_file(file) == IF file.exists THEN ParseLines(file.lines, "", <<>>) ELSE <<>>

\* A heap of dicts: the i-th dict object.  The nested dict `layer` is built on
\* the heap, its sections first; the result is the heap and the root's index.
RECURSIVE NewDictsFrom(_, _, _, _)
NewDictsFrom(h, layer, secs, root) ==
    IF secs = <<>> THEN <<Append(h, root), Len(h) + 1>>
    ELSE LET h1 == Append(h, layer[Head(secs)])
         IN  NewDictsFrom(h1, layer, Tail(secs), Put(root, Head(secs), PyDict(Len(h1))))

NewDicts(h, layer) == NewDictsFrom(h, layer, KeysOf(layer), <<>>)

\* Mutant: merged is base itself.
CopyDict_Alias(h, base) == <<h, base>>

\* config.py 102: merged = dict(base)
CopyDict(h, base) == <<Append(h, h[base]), Len(h) + 1>>

\* config.py 96-110
RECURSIVE deep_merge(_, _, _)
RECURSIVE MergeItems(_, _, _, _)
deep_merge(h, base, override) ==
    LET c == CopyDict(h, base)
    IN  MergeItems(c[1], c[2], override, KeysOf(c[1][override]))

\* config.py 103-109: the loop over override.items()
MergeItems(h, merged, override, ks) ==
    IF ks = <<>> THEN <<h, merged>>
    ELSE LET key == Head(ks)
             val == h[override][key]
         IN  IF val = PyNone
             THEN MergeItems(h, merged, override, Tail(ks))
             ELSE IF val.t = "dict" /\ key \in DOMAIN h[merged] /\ h[merged][key].t = "dict"
             THEN LET r == deep_merge(h, h[merged][key].n, val.n)
                  IN  MergeItems([r[1] EXCEPT ![merged] = Put(@, key, PyDict(r[2]))],
                                 merged, override, Tail(ks))
             ELSE MergeItems([h EXCEPT ![merged] = Put(@, key, val)],
                             merged, override, Tail(ks))

\* config.py 113-123: the dataclasses built from the merged dict, unknown keys
\* ignored, a section that is not a dict left at its defaults
dict_to_config(h, d) ==
    [sec \in Sections |->
        IF sec \in DOMAIN h[d] /\ h[d][sec].t = "dict"
        THEN [f \in Fields(sec) |->
                IF f \in DOMAIN h[h[d][sec].n] THEN h[h[d][sec].n][f] ELSE Default(sec, f)]
        ELSE [f \in Fields(sec) |-> Default(sec, f)]]

\* The objects of heap h1 are in h2 what they were in h1.
Intact(h1, h2) == SubSeq(h2, 1, Len(h1)) = h1

\* config.py 126-137: resolve_config(cli_overrides) over the two files; the
\* caller's cli_overrides dict is on the heap before the call
resolve_config(cli, global, project) ==
    LET a0 == NewDicts(<<>>, cli)
        a1 == NewDicts(a0[1], DefaultLayer)
        a2 == NewDicts(a1[1], load_config_file(global))
        m1 == deep_merge(a2[1], a1[2], a2[2])
        a3 == NewDicts(m1[1], load_config_file(project))
        m2 == deep_merge(a3[1], m1[2], a3[2])
        m3 == IF DOMAIN cli # {} THEN deep_merge(m2[1], m2[2], a0[2]) ELSE m2
    IN  [config |-> dict_to_config(m3[1], m3[2]),
         intact |-> Intact(a2[1], m1[1]) /\ Intact(a3[1], m2[1]) /\ Intact(m2[1], m3[1])]

\* key.split(".")
Split(key) ==
    CASE key = "milvus.uri"              -> <<"milvus", "uri">>
      [] key = "milvus.token"            -> <<"milvus", "token">>
      [] key = "chunking.max_chunk_size" -> <<"chunking", "max_chunk_size">>
      [] key = "milvus"                  -> <<"milvus">>
      [] key = "milvus.uri.x"            -> <<"milvus", "uri", "x">>
      [] key = "nosuch.uri"              -> <<"nosuch", "uri">>
      [] key = "milvus.nosuch"           -> <<"milvus", "nosuch">>

KeyArgs ==
    {"milvus.uri", "milvus.token", "chunking.max_chunk_size", "milvus", "milvus.uri.x",
     "nosuch.uri", "milvus.nosuch"}

ValueArgs == {PyStr("x"), PyStr(""), PyStr("7"), PyInt(8)}

\* The dicts a caller passes as cli_overrides (cli.py 47-60 leaves unset flags
\* out; other callers may pass None for them).
CliLayers ==
    {<<>>,
     [milvus |-> <<>>],
     [milvus |-> [uri |-> PyNone]],
     [milvus |-> [uri |-> PyStr("c")]],
     [chunking |-> [max_chunk_size |-> PyNone]],
     [chunking |-> [max_chunk_size |-> PyInt(9)]],
     [milvus |-> [uri |-> PyNone], chunking |-> [max_chunk_size |-> PyInt(9)]],
     [milvus |-> [uri |-> PyStr("c")], chunking |-> [max_chunk_size |-> PyNone]],
     [milvus |-> [uri |-> PyStr("")], chunking |-> [max_chunk_size |-> PyInt(9)]]}

\* Mutant: the value is stored as given.
IntConvert_Keep(field_name, value) == value

\* config.py 199-200: value = int(value) for an integer field given as a str
IntConvert(field_name, value) ==
    IF field_name \in INT_FIELDS /\ value.t = "str" THEN PyInt(ParseInt(value.s)) ELSE value

\* config.py 170-204: set_config_value(key, value, project=project)
SetConfigValue(key, value, project) ==
    /\ cf.sets < MaxSets
    /\ LET file     == IF project THEN cf.project ELSE cf.global
           existing == load_config_file(file)
           parts    == Split(key)
           c1       == [cf EXCEPT !.sets = @ + 1, !.call = "set",
                                  !.set = [done |-> TRUE, key |-> key, value |-> value,
                                           project |-> project, outcome |-> "ok",
                                           before |-> file],
                                  !.key = "", !.outcome = "", !.result = PyNone,
                                  !.cli = <<>>, !.config = <<>>, !.intact = TRUE]
       IN  IF Len(parts) # 2
           THEN cf' = [c1 EXCEPT !.set.outcome = "ValueError"]
           ELSE IF parts[1] \notin Sections \/ parts[2] \notin Fields(parts[1])
           THEN cf' = [c1 EXCEPT !.set.outcome = "KeyError"]
           ELSE IF parts[2] \in INT_FIELDS /\ value.t = "str" /\ ~Numeric(value.s)
           THEN cf' = [c1 EXCEPT !.set.outcome = "ValueError"]
           ELSE LET section == IF parts[1] \in DOMAIN existing
                               THEN existing[parts[1]] ELSE <<>>
                    saved   == save_config(
                                  Put(existing, parts[1],
                                      Put(section, parts[2], IntConvert(parts[2], value))))
                IN  cf' = IF project THEN [c1 EXCEPT !.project = saved]
                                     ELSE [c1 EXCEPT !.global = saved]
    /\ UNCHANGED <<syncVars, watchVars, extraVars, batchVars, storeVars, callbackVars, providerVars>>

\* config.py 126-137: a caller's resolve_config(cli_overrides)
ResolveConfig(cli) ==
    /\ LET r == resolve_config(cli, cf.global, cf.project)
       IN  cf' = [cf EXCEPT !.call = "resolve", !.cli = cli, !.config = r.config,
                            !.intact = r.intact,
                            !.key = "", !.outcome = "", !.result = PyNone]
    /\ UNCHANGED <<syncVars, watchVars, extraVars, batchVars, storeVars, callbackVars, providerVars>>

\* config.py 153-167: get_config_value(key), the config resolved from all
\* sources; a key of one part returns the section
GetConfigValue(key) ==
    /\ LET r     == resolve_config(<<>>, cf.global, cf.project)
           parts == Split(key)
           c1    == [cf EXCEPT !.call = "get", !.key = key, !.cli = <<>>,
                               !.config = r.config, !.intact = r.intact,
                               !.result = PyNone]
       IN  IF parts[1] \notin Sections
           THEN cf' = [c1 EXCEPT !.outcome = "KeyError"]
           ELSE IF Len(parts) = 1
           THEN cf' = [c1 EXCEPT !.outcome = "section"]
           ELSE IF parts[2] \notin Fields(parts[1]) \/ Len(parts) > 2
           THEN cf' = [c1 EXCEPT !.outcome = "KeyError"]
           ELSE cf' = [c1 EXCEPT !.outcome = "ok", !.result = r.config[parts[1]][parts[2]]]
    /\ UNCHANGED <<syncVars, watchVars, extraVars, batchVars, storeVars, callbackVars, providerVars>>

ConfigInit == WatchInit

ConfigNext ==
    \/ \E key \in KeyArgs, value \in ValueArgs, project \in BOOLEAN :
          SetConfigValue(key, value, project)
    \/ \E cli \in CliLayers : ResolveConfig(cli)
    \/ \E key \in KeyArgs : GetConfigValue(key)

ConfigSpec == ConfigInit /\ [][ConfigNext]_vars

-----------------------------------------------------------------------------
(* C23, C24: configuration *)

\* The layer sets section.field to a value other than None.
SetsField(layer, sec, f) ==
    sec \in DOMAIN layer /\ f \in DOMAIN layer[sec] /\ layer[sec][f] # PyNone

\* The value of the highest layer that sets section.field, its default otherwise.
HighestLayerValue(sec, f) ==
    IF SetsField(cf.cli, sec, f) THEN cf.cli[sec][f]
    ELSE IF SetsField(load_config_file(cf.project), sec, f)
    THEN load_config_file(cf.project)[sec][f]
    ELSE IF SetsField(load_config_file(cf.global), sec, f)
    THEN load_config_file(cf.global)[sec][f]
    ELSE Default(sec, f)

\* C23: resolve_config(cli_overrides) gives every section.field the value of
\* the highest layer (defaults < global file < project file < CLI overrides)
\* that sets it to a value other than None, its default when no layer does,
\* and no merge changes a dict that existed before it.
C23_ConfigPriority ==
    cf.call = "resolve" =>
        /\ \A sec \in Sections : \A f \in Fields(sec) :
              cf.config[sec][f] = HighestLayerValue(sec, f)
        /\ cf.intact

C23_Witness ==
    /\ cf.call = "resolve"
    /\ SetsField(load_config_file(cf.global), "milvus", "uri")
    /\ load_config_file(cf.global)["milvus"]["uri"] = PyStr("x")
    /\ SetsField(load_config_file(cf.project), "milvus", "uri")
    /\ load_config_file(cf.project)["milvus"]["uri"] = PyStr("")
    /\ cf.cli = [milvus |-> [uri |-> PyNone], chunking |-> [max_chunk_size |-> PyInt(9)]]
    /\ cf.config["milvus"]["uri"] = PyStr("")
    /\ cf.config["chunking"]["max_chunk_size"] = PyInt(9)
    /\ cf.config["watch"]["debounce_ms"] = PyInt(1500)

\* The last set_config_value call had a valid key and a valid value.
ValidSet ==
    /\ cf.set.done
    /\ Len(Split(cf.set.key)) = 2
    /\ Split(cf.set.key)[1] \in Sections
    /\ Split(cf.set.key)[2] \in Fields(Split(cf.set.key)[1])
    /\ (Split(cf.set.key)[2] \in INT_FIELDS /\ cf.set.value.t = "str")
          => Numeric(cf.set.value.s)

\* The value get_config_value is to return after the last set_config_value.
ValueSet ==
    IF Split(cf.set.key)[2] \in INT_FIELDS /\ cf.set.value.t = "str"
    THEN PyInt(ParseInt(cf.set.value.s))
    ELSE cf.set.value

\* The file the last set_config_value call was to write.
TargetFile == IF cf.set.project THEN cf.project ELSE cf.global

\* C24: after set_config_value(key, value) on the global file with a valid key
\* and value, and no project file setting the key, get_config_value(key)
\* returns the value (as an int for an integer field given as a string) and
\* every other key the file had keeps its value; a set_config_value whose key
\* is not section.field, or names an unknown section or field, raises and
\* leaves the file as it was.
C24_SetGetRoundTrip ==
    /\ (cf.set.done /\ ValidSet) =>
          /\ cf.set.outcome = "ok"
          /\ \A sec \in Sections : \A f \in Fields(sec) :
                (<<sec, f>> # Split(cf.set.key)
                    /\ SetsField(load_config_file(cf.set.before), sec, f)) =>
                   /\ SetsField(load_config_file(TargetFile), sec, f)
                   /\ load_config_file(TargetFile)[sec][f]
                         = load_config_file(cf.set.before)[sec][f]
          /\ (/\ cf.call = "get" /\ cf.key = cf.set.key /\ ~cf.set.project
              /\ ~SetsField(load_config_file(cf.project),
                            Split(cf.set.key)[1], Split(cf.set.key)[2])) =>
                (cf.outcome = "ok" /\ cf.result = ValueSet)
    /\ (cf.set.done /\ (Len(Split(cf.set.key)) # 2
                        \/ Split(cf.set.key)[1] \notin Sections
                        \/ Split(cf.set.key)[2] \notin Fields(Split(cf.set.key)[1]))) =>
          /\ cf.set.outcome \in {"KeyError", "ValueError"}
          /\ TargetFile = cf.set.before

C24_Witness ==
    /\ cf.call = "get" /\ cf.key = "chunking.max_chunk_size"
    /\ cf.set.key = "chunking.max_chunk_size" /\ ~cf.set.project
    /\ cf.set.value = PyStr("7")
    /\ cf.set.before.exists
    /\ SetsField(load_config_file(cf.global), "milvus", "uri")
    /\ cf.outcome = "ok" /\ cf.result = PyInt(7)

-----------------------------------------------------------------------------
(* C31, C40: the two maps of the handler *)

\* C31: the step of cancel_all leaves the timer map and the pending-kind map
\* empty, and no later invocation of the callback delivers an event that was
\* pending when cancel_all ran, an event whose timer had already elapsed
\* included.
C31_CancelAllDiscardsPending ==
    [][/\ (wpc = "running" /\ wpc' = "cancelled") =>
             \A path \in Sources : timers'[path] = 0 /\ pending'[path] = ""
       /\ (Len(cbLog') > Len(cbLog)) =>
             ~tm'[tm'[cbLog'[Len(cbLog')].timer].newest].discarded]_vars

C31_Witness ==
    \E t \in 1..Len(tm) :
        /\ tm[t].discarded
        /\ tm[t].state = "finished"
        /\ tm[t].event_type = ""
        /\ \A i \in 1..Len(cbLog) : cbLog[i].timer # t

\* C40: between two critical sections of the handler's lock a path has an
\* entry in the timer map exactly when it has one in the pending-kind map, and
\* a _schedule or _fire step for one path leaves the entries of every other
\* path as they were.
C40_MapsInStep ==
    [][/\ \A path \in Sources : (timers'[path] # 0) <=> (pending'[path] # "")
       /\ (Len(tm') > Len(tm)) =>
             \A q \in Sources \ {tm'[Len(tm')].path} :
                 timers'[q] = timers[q] /\ pending'[q] = pending[q]
       /\ \A t \in 1..Len(tm) :
             (tm[t].state = "elapsed" /\ tm'[t].state = "popped") =>
                 \A q \in Sources \ {tm[t].path} :
                     timers'[q] = timers[q] /\ pending'[q] = pending[q]]_vars

C40_Witness ==
    /\ timers["a.md"] # 0 /\ pending["a.md"] # ""
    /\ timers["b.md"] = 0 /\ pending["b.md"] = ""
    /\ \E t \in 1..Len(tm) : tm[t].path = "b.md" /\ tm[t].state = "popped"
    /\ \E t \in 1..Len(tm) : tm[t].path = "a.md" /\ tm[t].state = "cancelled"

-----------------------------------------------------------------------------
(* C36: backend calls of a re-index *)

\* C36: _embed_and_store on n chunks with a backend of batch limit b makes
\* ceil(n / b) backend calls, and exactly one, with all the texts, when n <= b.
C36_NoUnnecessaryRoundTrips ==
    (be.pc = "done" /\ be.api = "_embed_and_store" /\ be.outcome = "ok") =>
        /\ Len(be.call_log) = (Len(be.chunks) + be.limit - 1) \div be.limit
        /\ (be.chunks # <<>> /\ Len(be.chunks) <= be.limit) =>
              be.call_log = <<[k \in 1..Len(be.chunks) |-> be.chunks[k].content]>>

-----------------------------------------------------------------------------
(* C38: every provider behind the dispatcher *)

\* C38: for every registered name and every b >= 1, get_provider(name,
\* batch_size=b) with the provider's module installed returns a provider whose
\* batch limit is b, and no backend call of its embed carries more than b texts.
C38_EveryAdapterBatches ==
    (/\ pv.call = "get_provider" /\ pv.name \in ProviderNames
     /\ pv.given /\ pv.batch_size >= 1 /\ pv.outcome # "ImportError") =>
        /\ pv.outcome = "ok"
        /\ pv.limit = pv.batch_size
        /\ \A k \in 1..Len(be.call_log) : Len(be.call_log[k]) <= pv.batch_size

-----------------------------------------------------------------------------
(* C39: recovery after a failed re-index *)

\* The re-index before this one was of the same file with the same text and
\* model, and failed after reading it (in its embedding or its upsert step).
AfterFailedReindex ==
    /\ op.prev.kind = "file" /\ ~op.prev.ok
    /\ op.prev.source = op.source
    /\ op.prev.text = op.text /\ op.text # <<>>
    /\ op.prev.model = op.model

-----------------------------------------------------------------------------
(* C37: what a per-file re-index touches *)

\* C37: _index_file for source s leaves every record of another source as it
\* was, and leaves the records of s whose identifier is both stored and
\* current as they were (force off).
C37_ReindexTouchesOwnSource ==
    db.call = "_index_file" =>
        /\ {r \in store : r.source # db.source}
              = {r \in db.before : r.source # db.source}
        /\ \A r \in db.before :
              (r.source = db.source /\ r.chunk_hash \in db.chunk_ids) => r \in store

-----------------------------------------------------------------------------
(* Re-indexes running in several threads: index() in its caller's thread,   *)
(* and the callback of watch() in one timer thread per event (watcher.py    *)
(* 40-42, core.py 313-322).  Nothing in core.py serialises them.            *)

ixFrame == <<roots, model, op, pass, last, calls, watchVars, batchVars,
             storeVars, cb, cf, pv, hd>>

\* core.py 97-117: the thread reads the file and chunks it; read_text raises
\* when the file is not there or cannot be read.
Started(source) ==
    LET base   == [IdleThread EXCEPT !.source = source,
                      !.during_pass = ix.pass.pc \notin {"idle", "done"}]
        chunks == chunk_markdown(disk[source].text, source)
    IN  IF disk[source].kind # "file"
        THEN [base EXCEPT !.pc = "done", !.outcome = "error"]
        ELSE [base EXCEPT !.pc = "query", !.text = disk[source].text,
                          !.chunks = chunks,
                          !.chunk_ids = ChunkIds(chunks, model)]

\* watcher.py 46-52 and core.py 313-322, 97-117: a timer thread runs the
\* callback, which enters index_file(path).  The timer threads are numbered in
\* the order they get there.
ThreadRead(t, source) ==
    /\ t \in Callbacks
    /\ ix.th[t].pc = "idle"
    /\ t = "t2" => ix.th["t1"].pc # "idle"
    /\ ix' = [ix EXCEPT !.th[t] = Started(source)]
    /\ UNCHANGED <<disk, store, writes, ixFrame>>

\* core.py 118
ThreadQuery(t) ==
    /\ ix.th[t].pc = "query"
    /\ ix' = [ix EXCEPT !.th[t].pc = "delete",
                        !.th[t].old_ids = hashes_by_source(store, ix.th[t].source)]
    /\ UNCHANGED <<disk, store, writes, ixFrame>>

\* core.py 120-136
ThreadDelete(t) ==
    LET me    == ix.th[t]
        stale == StaleIds(me.old_ids, me.chunk_ids)
        todo  == ChunksToEmbed(me.chunks, me.old_ids, model, FALSE)
    IN  /\ me.pc = "delete"
        /\ store' = IF stale = {} THEN store ELSE delete_by_hashes(store, stale)
        /\ ix' = IF todo = <<>>
                 THEN [ix EXCEPT !.th[t].pc = "done", !.th[t].outcome = "ok"]
                 ELSE [ix EXCEPT !.th[t].pc = "embed", !.th[t].todo = todo]
        /\ UNCHANGED <<disk, writes, ixFrame>>

\* core.py 146-154: the embedding calls, which the thread awaits and which may
\* raise
ThreadEmbed(t) ==
    LET me == ix.th[t]
    IN  /\ me.pc = "embed"
        /\ \E ok \in BOOLEAN :
              ix' = IF ok
                    THEN [ix EXCEPT !.th[t].pc = "upsert",
                             !.th[t].embeddings =
                                 [k \in 1..Len(me.todo) |-> Vector(me.todo[k].content, model)]]
                    ELSE [ix EXCEPT !.th[t].pc = "done", !.th[t].outcome = "error"]
        /\ UNCHANGED <<disk, store, writes, ixFrame>>

\* core.py 156-175
ThreadUpsert(t) ==
    LET me == ix.th[t]
    IN  /\ me.pc = "upsert"
        /\ store' = upsert(store, BuildRecords(me.todo, me.embeddings, model))
        /\ ix' = [ix EXCEPT !.th[t].pc = "done", !.th[t].outcome = "ok"]
        /\ UNCHANGED <<disk, writes, ixFrame>>

\* core.py 80-81: index() scans the roots
PassScan ==
    /\ ix.pass.pc = "idle"
    /\ ix.th["index"].pc = "idle"
    /\ ix' = [ix EXCEPT !.pass.pc = "files",
                        !.pass.files = scan_paths(roots, disk)]
    /\ UNCHANGED <<disk, store, writes, ixFrame>>

\* core.py 82-85: the loop over the scanned files; an exception of _index_file
\* ends index()
PassStep ==
    LET p  == ix.pass
        me == ix.th["index"]
    IN  /\ p.pc = "files"
        /\ me.pc \in {"idle", "done"}
        /\ ix' = IF me.pc = "done" /\ me.outcome = "error"
                 THEN [ix EXCEPT !.pass.pc = "done", !.pass.outcome = "error"]
                 ELSE IF p.k = Len(p.files)
                 THEN [ix EXCEPT !.pass.pc = "cleanup"]
                 ELSE [ix EXCEPT !.pass.k = p.k + 1,
                          !.pass.active_sources = p.active_sources \cup {p.files[p.k + 1]},
                          !.th["index"] = Started(p.files[p.k + 1])]
        /\ UNCHANGED <<disk, store, writes, ixFrame>>

\* core.py 88
PassListIndexed ==
    /\ ix.pass.pc = "cleanup"
    /\ ix' = [ix EXCEPT !.pass.pc = "remove",
                        !.pass.indexed_sources = indexed_sources(store)]
    /\ UNCHANGED <<disk, store, writes, ixFrame>>

\* The callback threads that have returned from a re-index begun after the
\* scan of the running index().
FinishedDuringPass ==
    {t \in Callbacks : /\ ix.th[t].pc = "done" /\ ix.th[t].outcome = "ok"
                       /\ ix.th[t].during_pass}

\* core.py 89-90: the sources the cleanup takes for deleted files
Gone(indexed, active_sources) == {s \in indexed : s \notin active_sources}

\* core.py 89-95
PassCleanup ==
    LET p    == ix.pass
        gone == Gone(p.indexed_sources, p.active_sources)
        kept == {r \in store : r.source \notin gone}
    IN  /\ p.pc = "remove"
        /\ store' = kept
        /\ ix' = [ix EXCEPT !.pass.pc = "done", !.pass.outcome = "ok",
                            !.pass.removed = store \ kept,
                            !.pass.finished = FinishedDuringPass,
                            !.pass.live = {s \in Sources : disk[s].kind = "file"}]
        /\ UNCHANGED <<disk, writes, ixFrame>>

\* The files the threads meet: a.md absent or a note of one or two sections,
\* b.md absent or a one-section note.
ThreadFiles(s) ==
    {f \in FileStatesOf(s) :
        f.kind = "absent" \/ (f.kind = "file" /\ f.text \in {<<"p">>, <<"q">>, <<"p", "q">>})}

\* A file is created, edited or removed while the threads run.
Edit(s, f) ==
    /\ writes < MaxWrites
    /\ f # disk[s]
    /\ disk' = [disk EXCEPT ![s] = f]
    /\ writes' = writes + 1
    /\ UNCHANGED <<store, ix, ixFrame>>

ThreadsInit ==
    /\ disk \in {d \in [Sources -> FileStates] : \A s \in Sources : d[s] \in ThreadFiles(s)}
    /\ roots = {"a.md", "b.md"}
    /\ model = "m1"
    /\ store = {}
    /\ op = IdleOp
    /\ pass = IdlePass
    /\ last = NoSummary
    /\ writes = 0
    /\ calls = 0
    /\ WatchIdle
    /\ OthersIdle

ThreadsNext ==
    \/ \E t \in Callbacks, source \in Sources : ThreadRead(t, source)
    \/ \E t \in Threads : ThreadQuery(t)
    \/ \E t \in Threads : ThreadDelete(t)
    \/ \E t \in Threads : ThreadEmbed(t)
    \/ \E t \in Threads : ThreadUpsert(t)
    \/ PassScan
    \/ PassStep
    \/ PassListIndexed
    \/ PassCleanup
    \/ \E s \in Sources : \E f \in ThreadFiles(s) : Edit(s, f)

ThreadsSpec == ThreadsInit /\ [][ThreadsNext]_vars

\* C34: when two re-indexes of one source that read different contents of the
\* file have both completed (and no third has touched the store), the
\* identifiers stored for the source are those of one of the two contents.
C34_OneGeneration ==
    \A t, u \in Threads :
        (/\ t # u
         /\ \A v \in Threads \ {t, u} : ix.th[v].pc = "idle"
         /\ ix.th[t].pc = "done" /\ ix.th[t].outcome = "ok"
         /\ ix.th[u].pc = "done" /\ ix.th[u].outcome = "ok"
         /\ ix.th[t].source = ix.th[u].source
         /\ ix.th[t].text # ix.th[u].text)
        => hashes_by_source(store, ix.th[t].source)
              \in {ix.th[t].chunk_ids, ix.th[u].chunk_ids}

\* C35: the cleanup of index() removes no record of a file that is on disk
\* and that a callback indexed while index() was in progress.
C35_CleanupSparesLiveFiles ==
    ix.pass.pc = "done" =>
        \A t \in ix.pass.finished : \A r \in ix.pass.removed :
            ix.th[t].source \in ix.pass.live => r.source # ix.th[t].source

-----------------------------------------------------------------------------
(* _MarkdownHandler with its lock: the observer thread delivers events and  *)
(* runs _schedule, each threading.Timer runs _fire in a thread of its own,  *)
(* the caller of FileWatcher.stop() runs cancel_all.                        *)

hdFrame == <<syncVars, watchVars, batchVars, storeVars, cb, cf, pv, ix>>

\* The paths the observer reports: two notes, one of them with an upper-case
\* suffix, a backup copy, and a file without a suffix.
EventPaths == {"a.md", "b.MD", "a.md.bak", "notes"}

\* pathlib: Path(path).suffix, the last dot of the name and what follows it
Suffix(path) ==
    CASE path = "a.md"     -> ".md"
      [] path = "b.MD"     -> ".MD"
      [] path = "a.md.bak" -> ".bak"
      [] OTHER             -> ""

\* str.lower()
Lower(str) == IF str = ".MD" THEN ".md" ELSE str

\* watcher.py 24: extensions
Extensions == {".md", ".markdown"}

\* Mutant: every path is taken for markdown.
is_markdown_Any(path) == TRUE

\* watcher.py 34-35
is_markdown(path) == Lower(Suffix(path)) \in Extensions

\* Mutant: the lock is still held after the with block.
Exit_Held(lock) == lock

\* watcher.py 38, 47, 68: leaving `with self._lock`
Exit(lock) == Nobody

\* dict[key] = value
SetItem(d, key, value) ==
    [p \in DOMAIN d \cup {key} |-> IF p = key THEN value ELSE d[p]]

\* dict.pop(key, None)
Pop(d, key) == [p \in DOMAIN d \ {key} |-> d[p]]

\* watcher.py 54-64: on_created, on_modified, on_deleted; the observer thread
\* goes on to _schedule when the event passes the filter
OnEvent(event_type, is_directory, src_path) ==
    LET o == hd.observer
        passes == ~is_directory /\ is_markdown(src_path)
    IN  /\ o.pc = "idle"
        /\ hd.stop # "done"
        /\ o.seen < MaxEvents
        /\ hd' = [hd EXCEPT !.observer =
                     [pc |-> IF passes THEN "acquire" ELSE "idle",
                      event_type |-> event_type, src_path |-> src_path,
                      is_directory |-> is_directory, scheduled |-> passes,
                      seen |-> o.seen + 1]]
        /\ UNCHANGED hdFrame

\* watcher.py 38: the observer thread enters `with self._lock`
ScheduleLock ==
    /\ hd.observer.pc = "acquire"
    /\ hd.lock = Nobody
    /\ hd' = [hd EXCEPT !.lock = ObserverThread, !.observer.pc = "locked"]
    /\ UNCHANGED hdFrame

\* watcher.py 39-44: the body of _schedule, and the end of the with block
ScheduleBody ==
    LET o    == hd.observer
        path == o.src_path
        old  == IF path \in DOMAIN hd.timers THEN {hd.timers[path]} ELSE {}
        timer == [state |-> "waiting", path |-> path, event_type |-> "",
                  is_directory |-> o.is_directory]
    IN  /\ o.pc = "locked"
        /\ hd' = [hd EXCEPT
                    !.pending = SetItem(hd.pending, path, o.event_type),
                    !.threads = Append([k \in 1..Len(hd.threads) |->
                                           IF k \in old THEN Cancel(hd.threads[k])
                                           ELSE hd.threads[k]], timer),
                    !.timers = SetItem(hd.timers, path, Len(hd.threads) + 1),
                    !.writer = hd.lock,
                    !.lock = Exit(hd.lock),
                    !.observer.pc = "idle"]
        /\ UNCHANGED hdFrame

\* threading.Timer: the interval has passed and the timer was not cancelled;
\* its thread calls _fire(path)
TimerElapsed(k) ==
    /\ k \in 1..Len(hd.threads)
    /\ hd.threads[k].state = "waiting"
    /\ hd' = [hd EXCEPT !.threads[k].state = "acquire"]
    /\ UNCHANGED hdFrame

\* watcher.py 47: the timer thread enters `with self._lock`
FireLock(k) ==
    /\ k \in 1..Len(hd.threads)
    /\ hd.threads[k].state = "acquire"
    /\ hd.lock = Nobody
    /\ hd' = [hd EXCEPT !.lock = TimerThread(k), !.threads[k].state = "locked"]
    /\ UNCHANGED hdFrame

\* watcher.py 48-50: the two pops, the end of the with block, and the test of
\* event_type
FireBody(k) ==
    /\ k \in 1..Len(hd.threads)
    /\ hd.threads[k].state = "locked"
    /\ LET path == hd.threads[k].path
           event_type == IF path \in DOMAIN hd.pending THEN hd.pending[path] ELSE ""
       IN  hd' = [hd EXCEPT
                    !.pending = Pop(hd.pending, path),
                    !.timers = Pop(hd.timers, path),
                    !.writer = hd.lock,
                    !.lock = Exit(hd.lock),
                    !.threads[k].event_type = event_type,
                    !.threads[k].state = IF event_type # "" THEN "callback"
                                         ELSE "finished"]
    /\ UNCHANGED hdFrame

\* watcher.py 51-52: the user callback, which re-indexes the file and awaits
\* the embedding calls, returns
CallbackReturns(k) ==
    /\ k \in 1..Len(hd.threads)
    /\ hd.threads[k].state = "callback"
    /\ hd' = [hd EXCEPT !.threads[k].state = "finished"]
    /\ UNCHANGED hdFrame

\* watcher.py 109-111, 68: stop() calls cancel_all, which enters the with block
CancelAllLock ==
    /\ hd.stop = "idle"
    /\ hd.lock = Nobody
    /\ hd' = [hd EXCEPT !.lock = StopThread, !.stop = "locked"]
    /\ UNCHANGED hdFrame

\* watcher.py 69-72, 112-113: the body of cancel_all and the end of the with
\* block; the observer is then stopped
CancelAllBody ==
    /\ hd.stop = "locked"
    /\ hd' = [hd EXCEPT
                !.threads = [k \in 1..Len(hd.threads) |->
                                IF \E p \in DOMAIN hd.timers : hd.timers[p] = k
                                THEN Cancel(hd.threads[k]) ELSE hd.threads[k]],
                !.timers = EmptyDict,
                !.pending = EmptyDict,
                !.writer = hd.lock,
                !.lock = Exit(hd.lock),
                !.stop = "done"]
    /\ UNCHANGED hdFrame

HandlerInit == WatchInit

\* The steps of the threads inside the handler, the user callback apart.
HandlerSteps ==
    \/ ScheduleLock
    \/ ScheduleBody
    \/ \E k \in 1..MaxEvents : FireLock(k)
    \/ \E k \in 1..MaxEvents : FireBody(k)
    \/ CancelAllLock
    \/ CancelAllBody

HandlerNext ==
    \/ \E event_type \in Kinds, is_directory \in BOOLEAN, src_path \in EventPaths :
          OnEvent(event_type, is_directory, src_path)
    \/ \E k \in 1..MaxEvents : TimerElapsed(k)
    \/ \E k \in 1..MaxEvents : CallbackReturns(k)
    \/ HandlerSteps

HandlerSpec == HandlerInit /\ [][HandlerNext]_vars

\* A thread that is running is scheduled again; nothing is assumed of the
\* events, of the timers' intervals, or of the callback ever returning.
FairHandlerSpec == HandlerSpec /\ WF_vars(HandlerSteps)

\* The threads inside a with block, and those waiting to enter one.
InCritical ==
    (IF hd.observer.pc = "locked" THEN {ObserverThread} ELSE {})
        \cup (IF hd.stop = "locked" THEN {StopThread} ELSE {})
        \cup {TimerThread(k) : k \in {j \in 1..Len(hd.threads) : hd.threads[j].state = "locked"}}

\* The k-th timer exists and its thread is in the given state.
TimerIs(k, state) ==
    IF k <= Len(hd.threads) THEN hd.threads[k].state = state ELSE FALSE

\* C32: the timer map and the pending map change only in a step of the thread
\* that holds the lock; the lock is held by exactly the threads inside a with
\* block, so never by a thread running the callback; and a thread waiting for
\* the lock gets it, whatever the callbacks do.
C32_LockDiscipline ==
    /\ [][(hd'.timers # hd.timers \/ hd'.pending # hd.pending) =>
             (hd.lock # Nobody /\ hd.lock \in InCritical /\ hd'.writer = hd.lock)]_vars
    /\ [](InCritical = IF hd.lock = Nobody THEN {} ELSE {hd.lock})
    /\ [](\A k \in 1..Len(hd.threads) :
             hd.threads[k].state = "callback" => hd.lock # TimerThread(k))
    /\ (hd.observer.pc = "acquire") ~> (hd.observer.pc = "locked")
    /\ \A k \in 1..MaxEvents : TimerIs(k, "acquire") ~> TimerIs(k, "locked")

\* The observer holds the lock to schedule an event for a file whose earlier
\* callback is still running.
C32_Witness ==
    /\ hd.lock = ObserverThread
    /\ \E k \in 1..Len(hd.threads) :
          /\ hd.threads[k].state = "callback"
          /\ hd.threads[k].path = hd.observer.src_path
    /\ \E k \in 1..Len(hd.threads) : hd.threads[k].state = "acquire"

\* C33: an event for a directory, or for a path whose lower-cased suffix is not
\* a markdown extension, changes neither dict and no timer, and does not send
\* the observer into _schedule; every pending entry, timer and callback is for
\* a markdown path and comes from an event for a file.
C33_EventsFiltered ==
    /\ [][(hd'.observer.seen # hd.observer.seen
             /\ (hd'.observer.is_directory
                   \/ Lower(Suffix(hd'.observer.src_path)) \notin Extensions)) =>
             /\ hd'.timers = hd.timers /\ hd'.pending = hd.pending
             /\ hd'.threads = hd.threads
             /\ hd'.observer.pc = "idle"]_vars
    /\ [](/\ \A p \in DOMAIN hd.pending \cup DOMAIN hd.timers :
                Lower(Suffix(p)) \in Extensions
          /\ \A k \in 1..Len(hd.threads) :
                /\ Lower(Suffix(hd.threads[k].path)) \in Extensions
                /\ ~hd.threads[k].is_directory)

\* Two events that the filter stops, the last one for a directory named like
\* the note, arrived while the note's timer was waiting; it is still waiting.
C33_Witness ==
    /\ hd.observer.seen = MaxEvents
    /\ hd.observer.pc = "idle"
    /\ hd.observer.is_directory /\ hd.observer.src_path = "b.MD"
    /\ Len(hd.threads) = 1
    /\ hd.threads[1].state = "waiting" /\ hd.threads[1].path = "b.MD"
    /\ hd.timers = [p \in {"b.MD"} |-> 1]

====
